---------------------------- MODULE Spec2Model ----------------------------
(***************************************************************************)
(* EpubGraph: the similarity graph with its multi-hop traversal            *)
(* (src-tauri/src/graph/mod.rs) and the vector store with its embedding    *)
(* cache (src-tauri/src/vector/mod.rs).                                    *)
(*                                                                         *)
(* Floating-point values are modelled exactly: an edge weight is a number  *)
(* of tenths, a score is a fraction [n, d] compared by cross               *)
(* multiplication, an f32 vector component is an integer-valued float.     *)
(***************************************************************************)
EXTENDS Integers, Sequences, FiniteSets, TLC

VARIABLES
    \* ---- graph/mod.rs: one call of multi_hop_traversal ----
    graph,        \* BookGraph: the edges in the order add_edge received them
    seeds,        \* the seed list of the call
    config,       \* the TraversalConfig of the call
    candidates,   \* HashMap<i64, TraversalCandidate>
    visited,      \* HashSet<i64>
    frontier,     \* VecDeque<(node, accumulated_score, path, edge_types, hop)>
    cur,          \* the entry popped from the frontier that is being expanded
    pending,      \* the part of graph.neighbors(node) the for loop has yet to visit
    result,       \* the returned Vec<TraversalCandidate>
    pc,           \* position in multi_hop_traversal
    expanded,     \* history: the (node, hop) whose neighbors were enumerated, in order
    discovered,   \* history: every candidate record the for loop computed, in order
    enqueued,     \* history: how many entries were pushed onto the frontier
    \* ---- vector/mod.rs: one VectorStore ----
    cache,        \* DashMap<i64, Vec<f32>>
    durable,      \* the rows of table embeddings: book_id -> embedding BLOB
    cache_loaded, \* RwLock<bool>
    ret,          \* the last completed call: its name, arguments and return value
    \* ---- vector/mod.rs and state.rs: threads sharing the VectorStore ----
    tpc,          \* thread -> its position in load_cache / find_similar
    cursor,       \* thread -> the book_ids its query_map iterator has yet to yield
    answers,      \* thread -> what its find_similar returned
    full_loads,   \* history: how many times the loop of load_cache ran to its end
    \* ---- graph/mod.rs: one call of personalized_pagerank ----
    pr_call,      \* the arguments of the call: seeds, preferences, config
    scores,       \* HashMap<i64, f64>: the current iterate
    personalization, \* HashMap<i64, f64>
    iter,         \* how many power iterations have run
    ppc,          \* position in personalized_pagerank
    \* ---- graph/mod.rs: one call of maximal_marginal_relevance ----
    mmr_call,     \* the arguments of the call: candidates, similarity_fn, lambda, top_k
    selected,     \* Vec<TraversalCandidate>
    remaining,    \* Vec<TraversalCandidate>
    picks,        \* history: what each selection step saw and which index it took
    mpc,          \* position in maximal_marginal_relevance
    \* ---- graph/mod.rs: compute_all_edge_weights, generate_recommendations ----
    fuse,         \* one call of compute_all_edge_weights: arguments and returned edges
    rec,          \* one call of generate_recommendations: arguments, stages and result
    \* ---- db/migrations.rs: table book_edges ----
    book_edges,   \* the rows of the table, a set of (source, target, type, weight)
    \* ---- graph/mod.rs: the fields of one BookGraph ----
    bg,           \* graph (petgraph nodes and edges), id_to_node, node_to_id
    \* ---- db/queries.rs: one call of insert_edges_batch ----
    batch,        \* its argument, its transaction and its position in the batch
    \* ---- worker/mod.rs and state.rs: the background worker and its callers ----
    queue,        \* the async_channel of BackgroundJob, oldest first
    paused,       \* the AtomicBool pause flag
    worker,       \* BackgroundWorker::run: its position and the job it holds
    status,       \* books.embedding_status, by book id
    embedded,     \* the book ids the VectorStore holds an embedding for
    run,          \* one call of process_pending_embeddings: position, books to go
    wlog,         \* history: jobs queued and taken, provider calls, last outcome
    \* ---- vector/mod.rs: serialize_embedding and deserialize_embedding ----
    codec         \* the last call: which function, its argument and what it returned

travVars == <<graph, seeds, config, candidates, visited, frontier, cur, pending,
              result, pc, expanded, discovered, enqueued>>

storeVars == <<cache, durable, cache_loaded, ret>>

threadVars == <<tpc, cursor, answers, full_loads>>

rankVars == <<pr_call, scores, personalization, iter, ppc,
              mmr_call, selected, remaining, picks, mpc, fuse, rec, book_edges>>

workerVars == <<queue, paused, worker, status, embedded, run, wlog>>

codecVars == <<codec>>

auxVars == <<bg, batch, workerVars, codecVars>>

\* the variables of rankVars other than the table, and those of auxVars other than
\* the BookGraph
rankCalls == <<pr_call, scores, personalization, iter, ppc,
               mmr_call, selected, remaining, picks, mpc, fuse, rec>>

dbVars == <<batch>>

vars == <<travVars, storeVars, threadVars, rankVars, auxVars>>

\* BookGraph::new(), lines 35-41: no node, no edge, empty maps
BookGraphNew == [nodes |-> <<>>, edges |-> <<>>, id_to_node |-> <<>>, node_to_id |-> <<>>]

\* the structures of a BookGraph are followed under SpecGraph; the other
\* specifications represent the graph by its edge list alone
AuxIdle ==
    /\ bg = BookGraphNew
    /\ batch = [pc |-> "idle", edges |-> <<>>, pos |-> 0, before |-> {}, tx |-> {}]
    /\ queue = <<>>
    /\ paused = FALSE
    /\ worker = <<>>
    /\ status = <<>>
    /\ embedded = {}
    /\ run = <<>>
    /\ wlog = <<>>
    /\ codec = [op |-> "none"]

\* no ranking call is running and table book_edges is empty
RankIdle ==
    /\ pr_call = <<>>
    /\ scores = <<>>
    /\ personalization = <<>>
    /\ iter = 0
    /\ ppc = "idle"
    /\ mmr_call = <<>>
    /\ selected = <<>>
    /\ remaining = <<>>
    /\ picks = <<>>
    /\ mpc = "idle"
    /\ fuse = <<>>
    /\ rec = <<>>
    /\ book_edges = {}

-----------------------------------------------------------------------------
(* Bounds of the traversal model *)

MaxEdges == 2
MaxHops == 2
MaxCand == 2

Nodes == 1..3
\* The (weight, type) pairs of the model's edges, the weight in tenths: 0.4 is below
\* the default hop-0 threshold and 0.9 passes every threshold; two types at one weight
\* tell parallel edges of equal score apart.
EdgeKinds == {<<4, "content">>, <<9, "content">>, <<9, "author">>}

-----------------------------------------------------------------------------
(* Scores: exact fractions *)

One == [n |-> 1, d |-> 1]

\* f64 `a > b`
ScoreGT(a, b) == a.n * b.d > b.n * a.d

RECURSIVE IntPow(_, _)
IntPow(b, e) == IF e = 0 THEN 1 ELSE b * IntPow(b, e - 1)

\* f64::powi on a fraction
powi(x, e) == [n |-> IntPow(x.n, e), d |-> IntPow(x.d, e)]

NewScoreNoDecay(acc, w, decay) == [n |-> acc.n * w, d |-> acc.d * 10]

\* accumulated_score * edge_weight * decay, the weight in tenths
NewScore(acc, w, decay) == [n |-> acc.n * w * decay.n, d |-> acc.d * 10 * decay.d]

-----------------------------------------------------------------------------
(* BookGraph *)

EdgeData ==
    {[source |-> s, target |-> t, weight |-> k[1], edge_type |-> k[2]] :
        s \in Nodes, t \in Nodes, k \in EdgeKinds}

RECURSIVE RevOutgoing(_, _)
RevOutgoing(es, book_id) ==
    IF es = <<>> THEN <<>>
    ELSE LET e == es[Len(es)]
             rest == RevOutgoing(SubSeq(es, 1, Len(es) - 1), book_id)
         IN IF e.source = book_id
            THEN <<[neighbor |-> e.target, edge_weight |-> e.weight,
                    edge_type |-> e.edge_type]>> \o rest
            ELSE rest

\* BookGraph::neighbors: the outgoing edges of the node; petgraph's edges() walks the
\* node's adjacency list, to whose head add_edge links each new edge, so the
\* newest edge comes first. An id that is no node has no outgoing edge.
neighbors(g, book_id) == RevOutgoing(g, book_id)

\* ---- the structures behind neighbors: petgraph's Graph and the two id maps ----

\* a map with key k set to v
MapInsert(m, k, v) == [x \in DOMAIN m \cup {k} |-> IF x = k THEN v ELSE m[x]]

\* EdgeIndex::end(), the end of an adjacency list
NoEdge == 0

\* petgraph add_node: the node is appended with empty outgoing and incoming lists
add_node(b, book_id) ==
    [b EXCEPT !.nodes = Append(@, [weight |-> book_id, next |-> <<NoEdge, NoEdge>>])]

\* a variant of get_or_create_node that adds a node at every call
GetOrCreateNodeAlways(b, book_id) ==
    LET idx == Len(b.nodes) + 1
    IN [bg |-> [add_node(b, book_id) EXCEPT
                    !.id_to_node = MapInsert(@, book_id, idx),
                    !.node_to_id = MapInsert(@, idx, book_id)],
        idx |-> idx]

\* lines 77-86: the index of the node of book_id, added when the id is new
get_or_create_node(b, book_id) ==
    IF book_id \in DOMAIN b.id_to_node
    THEN [bg |-> b, idx |-> b.id_to_node[book_id]]
    ELSE LET idx == Len(b.nodes) + 1
         IN [bg |-> [add_node(b, book_id) EXCEPT
                         !.id_to_node = MapInsert(@, book_id, idx),
                         !.node_to_id = MapInsert(@, idx, book_id)],
             idx |-> idx]

\* petgraph add_edge(a, c, weight): the edge is appended and linked to the head of
\* the outgoing list of a and of the incoming list of c
graph_add_edge(b, a, c, data) ==
    LET e == Len(b.edges) + 1
        an == b.nodes[a].next
        cn == b.nodes[c].next
    IN IF a = c
       THEN [b EXCEPT !.edges = Append(@, [weight |-> data, node |-> <<a, c>>, next |-> an]),
                      !.nodes[a].next = <<e, e>>]
       ELSE [b EXCEPT !.edges = Append(@, [weight |-> data, node |-> <<a, c>>,
                                            next |-> <<an[1], cn[2]>>]),
                      !.nodes[a].next[1] = e,
                      !.nodes[c].next[2] = e]

\* lines 89-98
add_edge(b, source, target, weight, edge_type) ==
    LET s == get_or_create_node(b, source)
        t == get_or_create_node(s.bg, target)
    IN graph_add_edge(t.bg, s.idx, t.idx, [weight |-> weight, edge_type |-> edge_type])

\* petgraph edges(idx) of a directed graph: the outgoing list, from edge e on
RECURSIVE EdgesFrom(_, _)
EdgesFrom(b, e) ==
    IF e = NoEdge THEN <<>> ELSE <<b.edges[e]>> \o EdgesFrom(b, b.edges[e].next[1])

graph_edges(b, idx) == EdgesFrom(b, b.nodes[idx].next[1])

\* lines 101-113: the (target id, weight, type) of each edge edges() yields, and no
\* entry for an id that has no node
Neighbors(b, book_id) ==
    IF book_id \in DOMAIN b.id_to_node
    THEN LET es == graph_edges(b, b.id_to_node[book_id])
         IN [i \in 1..Len(es) |->
                [neighbor |-> b.node_to_id[es[i].node[2]],
                 edge_weight |-> es[i].weight.weight,
                 edge_type |-> es[i].weight.edge_type]]
    ELSE <<>>

\* lines 116-118
node_count(b) == Len(b.nodes)

\* the BookGraph a sequence of add_edge calls builds from a new one
RECURSIVE BuildGraph(_)
BuildGraph(es) ==
    IF es = <<>> THEN BookGraphNew
    ELSE LET e == es[Len(es)]
         IN add_edge(BuildGraph(SubSeq(es, 1, Len(es) - 1)),
                     e.source, e.target, e.weight, e.edge_type)


-----------------------------------------------------------------------------
(* multi_hop_traversal *)

\* TraversalConfig::default()
DefaultMinWeights == <<5, 4, 3>>
DefaultDecay == [n |-> 3, d |-> 4]

SeqsUpTo(S, k) == UNION {[1..m -> S] : m \in 0..k}

\* the seed lists of the model: one seed, two seeds, one seed given twice
SeedLists == {<<1>>, <<1, 2>>, <<1, 1>>}

TraversalConfig ==
    [max_hops : 0..MaxHops,
     min_weights : {DefaultMinWeights, <<>>},
     decay_factor : {DefaultDecay},
     max_candidates : 0..MaxCand]

\* config.min_weights.get(hop).copied().unwrap_or(0.3); hop counts from 0
MinWeight(cfg, hop) ==
    IF hop + 1 <= Len(cfg.min_weights) THEN cfg.min_weights[hop + 1] ELSE 3

SeqToSet(s) == {s[i] : i \in 1..Len(s)}

RemoveKeysNone(m, ks) == m

\* lines 231-233: HashMap::remove of every key of ks
RemoveKeys(m, ks) == [k \in (DOMAIN m) \ ks |-> m[k]]

Perms(S) == {f \in [1..Cardinality(S) -> S] : \A x \in S : \E i \in DOMAIN f : f[i] = x}

\* one insertion of the stable sort by descending score:
\* sort_by(|a, b| b.score.partial_cmp(&a.score)) keeps equal elements in their order
RECURSIVE InsertByScore(_, _)
InsertByScore(sorted, c) ==
    IF sorted = <<>> THEN <<c>>
    ELSE LET last == sorted[Len(sorted)]
         IN IF ScoreGT(c.score, last.score)
            THEN Append(InsertByScore(SubSeq(sorted, 1, Len(sorted) - 1), c), last)
            ELSE Append(sorted, c)

RECURSIVE SortByScore(_)
SortByScore(s) ==
    IF s = <<>> THEN <<>>
    ELSE InsertByScore(SortByScore(SubSeq(s, 1, Len(s) - 1)), s[Len(s)])

\* The graphs of the model: up to MaxEdges add_edge calls. Traversal reads a graph
\* only through neighbors(), which depends on the order of the edges of one source
\* alone, so the calls are listed by source.
Graphs ==
    {g \in SeqsUpTo(EdgeData, MaxEdges) :
        \A i \in 1..(Len(g) - 1) : g[i].source <= g[i + 1].source}

NoEntry == [node |-> 0, score |-> One, path |-> <<>>, edge_types |-> <<>>, hop |-> 0]

TravInit ==
    /\ graph \in Graphs
    /\ seeds \in SeedLists
    /\ config \in TraversalConfig
    /\ candidates = <<>>
    /\ visited = {}
    /\ frontier = <<>>
    /\ cur = NoEntry
    /\ pending = <<>>
    /\ result = <<>>
    /\ pc = "start"
    /\ expanded = <<>>
    /\ discovered = <<>>
    /\ enqueued = 0

\* lines 172-180: the working sets, and the frontier initialised with the seeds
SeedFrontier ==
    /\ pc = "start"
    /\ visited' = SeqToSet(seeds)
    /\ frontier' = [i \in 1..Len(seeds) |->
                      [node |-> seeds[i], score |-> One, path |-> <<seeds[i]>>,
                       edge_types |-> <<>>, hop |-> 0]]
    /\ pc' = "loop"
    /\ enqueued' = Len(seeds)
    /\ UNCHANGED <<graph, seeds, config, candidates, cur, pending, result,
                   expanded, discovered>>
    /\ UNCHANGED <<storeVars, threadVars, rankVars, auxVars>>

SkipEntryHopOffByOne(e, cfg, cands) ==
    \/ e.hop > cfg.max_hops
    \/ Cardinality(DOMAIN cands) >= cfg.max_candidates

\* line 183: the entry is not expanded at the hop limit or once the candidate cap is hit
SkipEntry(e, cfg, cands) ==
    \/ e.hop >= cfg.max_hops
    \/ Cardinality(DOMAIN cands) >= cfg.max_candidates

\* lines 182-189: pop the front entry; skip it (continue) or enumerate its neighbors
PopFront ==
    /\ pc = "loop"
    /\ frontier # <<>>
    /\ LET e == Head(frontier)
       IN /\ frontier' = Tail(frontier)
          /\ IF SkipEntry(e, config, candidates)
             THEN UNCHANGED <<cur, pending, pc, expanded>>
             ELSE /\ cur' = e
                  /\ pending' = neighbors(graph, e.node)
                  /\ pc' = "for"
                  /\ expanded' = Append(expanded, [node |-> e.node, hop |-> e.hop])
    /\ UNCHANGED <<graph, seeds, config, candidates, visited, result, discovered,
                   enqueued>>
    /\ UNCHANGED <<storeVars, threadVars, rankVars, auxVars>>

UpsertCandidateOnTie(cands, c) ==
    IF c.book_id \in DOMAIN cands
    THEN IF ~ScoreGT(cands[c.book_id].score, c.score)
         THEN [cands EXCEPT ![c.book_id] = c]
         ELSE cands
    ELSE [k \in (DOMAIN cands) \cup {c.book_id} |->
            IF k = c.book_id THEN c ELSE cands[k]]

\* lines 205-220: candidates.entry(neighbor).and_modify(..).or_insert(..)
UpsertCandidate(cands, c) ==
    IF c.book_id \in DOMAIN cands
    THEN IF ScoreGT(c.score, cands[c.book_id].score)
         THEN [cands EXCEPT ![c.book_id] = c]
         ELSE cands
    ELSE [k \in (DOMAIN cands) \cup {c.book_id} |->
            IF k = c.book_id THEN c ELSE cands[k]]

\* a variant of the test of line 223 that lets every neighbor onto the frontier
NotVisitedAlways(v, neighbor) == TRUE

\* line 223: !visited.contains(&neighbor)
NotVisited(v, neighbor) == neighbor \notin v

\* lines 189-227: one iteration of the for loop over graph.neighbors(node)
VisitNeighbor ==
    /\ pc = "for"
    /\ pending # <<>>
    /\ LET nb == Head(pending)
           min_weight == MinWeight(config, cur.hop)
           decay == powi(config.decay_factor, cur.hop)
           new_score == NewScore(cur.score, nb.edge_weight, decay)
           new_path == Append(cur.path, nb.neighbor)
           new_edge_types == Append(cur.edge_types, nb.edge_type)
           c == [book_id |-> nb.neighbor, score |-> new_score, path |-> new_path,
                 edge_types |-> new_edge_types]
       IN /\ pending' = Tail(pending)
          /\ IF nb.edge_weight < min_weight
             THEN UNCHANGED <<candidates, visited, frontier, discovered, enqueued>>
             ELSE /\ candidates' = UpsertCandidate(candidates, c)
                  /\ discovered' = Append(discovered, c)
                  /\ IF NotVisited(visited, nb.neighbor)
                     THEN /\ visited' = visited \cup {nb.neighbor}
                          /\ frontier' = Append(frontier,
                                [node |-> nb.neighbor, score |-> new_score,
                                 path |-> new_path, edge_types |-> new_edge_types,
                                 hop |-> cur.hop + 1])
                          /\ enqueued' = enqueued + 1
                     ELSE UNCHANGED <<visited, frontier, enqueued>>
    /\ UNCHANGED <<graph, seeds, config, cur, result, pc, expanded>>
    /\ UNCHANGED <<storeVars, threadVars, rankVars, auxVars>>

\* line 227: the for loop has visited every neighbor; back to the while loop
ForEnd ==
    /\ pc = "for"
    /\ pending = <<>>
    /\ pc' = "loop"
    /\ UNCHANGED <<graph, seeds, config, candidates, visited, frontier, cur, pending,
                   result, expanded, discovered, enqueued>>
    /\ UNCHANGED <<storeVars, threadVars, rankVars, auxVars>>

\* lines 230-237: the frontier is empty; remove the seeds, collect the values of the map
\* (in the map's arbitrary order) and sort them by descending score
Finish ==
    /\ pc = "loop"
    /\ frontier = <<>>
    /\ candidates' = RemoveKeys(candidates, SeqToSet(seeds))
    /\ \E order \in Perms(DOMAIN candidates') :
          result' = SortByScore([i \in DOMAIN order |-> candidates'[order[i]]])
    /\ pc' = "done"
    /\ UNCHANGED <<graph, seeds, config, visited, frontier, cur, pending,
                   expanded, discovered, enqueued>>
    /\ UNCHANGED <<storeVars, threadVars, rankVars, auxVars>>

TravNext == SeedFrontier \/ PopFront \/ VisitNeighbor \/ ForEnd \/ Finish

-----------------------------------------------------------------------------
(* vector/mod.rs: 32-bit floats and their bytes *)

EMBEDDING_DIM == 768

\* An f32 by its IEEE-754 fields: sign bit, 8-bit exponent, 23-bit mantissa.
F32 == [sign : 0..1, exp : 0..255, man : 0..8388607]

RECURSIVE Log2Floor(_)
Log2Floor(a) == IF a <= 1 THEN 0 ELSE 1 + Log2Floor(a \div 2)

\* the float whose value is the integer x (exact for |x| < 2^24)
F32FromInt(x) ==
    LET a == IF x < 0 THEN -x ELSE x
        e == Log2Floor(a)
    IN IF a = 0 THEN [sign |-> 0, exp |-> 0, man |-> 0]
       ELSE [sign |-> IF x < 0 THEN 1 ELSE 0,
             exp |-> e + 127,
             man |-> a * IntPow(2, 23 - e) - 8388608]

\* `*x as f64` for a float of integer value: (-1)^sign * (2^23 + man) * 2^(exp - 150)
F32Value(f) ==
    IF f.exp = 0 /\ f.man = 0 THEN 0
    ELSE LET m == 8388608 + f.man
             mag == IF f.exp >= 150 THEN m * IntPow(2, f.exp - 150)
                    ELSE m \div IntPow(2, 150 - f.exp)
         IN IF f.sign = 1 THEN -mag ELSE mag

\* a variant of to_le_bytes that writes the highest byte first
ToBeBytes(f) ==
    <<f.sign * 128 + f.exp \div 2,
      (f.exp % 2) * 128 + f.man \div 65536,
      (f.man \div 256) % 256,
      f.man % 256>>

\* f32::to_le_bytes: the word sign:exp:man, lowest byte first
to_le_bytes(f) ==
    <<f.man % 256,
      (f.man \div 256) % 256,
      (f.exp % 2) * 128 + f.man \div 65536,
      f.sign * 128 + f.exp \div 2>>

\* f32::from_le_bytes
from_le_bytes(b) ==
    [sign |-> b[4] \div 128,
     exp |-> (b[4] % 128) * 2 + b[3] \div 128,
     man |-> (b[3] % 128) * 65536 + b[2] * 256 + b[1]]

(***************************************************************************)
(* A Vec<f32> of len components is held as [len, lead]: its leading        *)
(* components, all later ones being +0.0. A byte string of len bytes is    *)
(* held the same way, all bytes after lead being 0 (the bytes of +0.0).    *)
(***************************************************************************)
\* the vector (a, b, 0.0, ..., 0.0) of n components; the empty vector for n = 0
Emb(n, a, b) ==
    [len |-> n, lead |-> IF n >= 2 THEN <<F32FromInt(a), F32FromInt(b)>> ELSE <<>>]

\* serialize_embedding: 4 little-endian bytes per component, no header
serialize_embedding(embedding) ==
    [len |-> embedding.len * 4,
     lead |-> [i \in 1..(4 * Len(embedding.lead)) |->
                 to_le_bytes(embedding.lead[((i - 1) \div 4) + 1])[((i - 1) % 4) + 1]]]

Err(kind) == [ok |-> FALSE, err |-> kind]
Ok(v) == [ok |-> TRUE, value |-> v]

\* deserialize_embedding: an error unless the length is a multiple of 4, else one
\* float per 4-byte chunk
deserialize_embedding(bytes) ==
    IF bytes.len % 4 # 0 THEN Err("InvalidInput")
    ELSE Ok([len |-> bytes.len \div 4,
             lead |-> [i \in 1..(Len(bytes.lead) \div 4) |->
                         from_le_bytes(SubSeq(bytes.lead, 4 * i - 3, 4 * i))]])

-----------------------------------------------------------------------------
(* vector/mod.rs: cosine similarity *)

RECURSIVE SumTo(_, _)
SumTo(f, k) == IF k = 0 THEN 0 ELSE f[k] + SumTo(f, k - 1)

\* the sum over the zipped components of x * y; components after lead are 0.0
Dot(a, b) ==
    LET m == IF Len(a.lead) < Len(b.lead) THEN Len(a.lead) ELSE Len(b.lead)
    IN SumTo([i \in 1..m |-> F32Value(a.lead[i]) * F32Value(b.lead[i])], m)

\* A similarity s is held as the fraction sq / den = sign(s) * s^2, which orders as s
\* does: for s = dot / sqrt(norm_a * norm_b), sq = sign(dot) * dot^2, den = norm_a * norm_b.
SimZero == [sq |-> 0, den |-> 1]

\* cosine_similarity: 0.0 on a length mismatch or when the norm product is not > 0
cosine_similarity(a, b) ==
    IF a.len # b.len THEN SimZero
    ELSE LET dot_product == Dot(a, b)
             norm_a == Dot(a, a)
             norm_b == Dot(b, b)
         IN IF norm_a * norm_b > 0
            THEN [sq |-> IF dot_product < 0 THEN -(dot_product * dot_product)
                         ELSE dot_product * dot_product,
                  den |-> norm_a * norm_b]
            ELSE SimZero

\* f64 `a > b` on similarities
SimGT(a, b) == a.sq * b.den > b.sq * a.den

-----------------------------------------------------------------------------
(* vector/mod.rs: VectorStore, one call at a time *)

MaxK == 2
MaxId == 2

Ids == 1..MaxId

\* embeddings of the configured dimension, and vectors of other lengths
Embeddings == {Emb(EMBEDDING_DIM, 1, 0), Emb(EMBEDDING_DIM, 1, 1)}
WrongDim == {Emb(EMBEDDING_DIM - 1, 1, 0), Emb(EMBEDDING_DIM + 1, 1, 1), Emb(0, 0, 0)}
\* queries: one of similarity -1/sqrt(2) and 0 to the two embeddings, and one of another
\* length, of similarity 0.0 to every embedding
Queries == {Emb(EMBEDDING_DIM, -1, 1), Emb(EMBEDDING_DIM - 1, 1, 0)}

None == [some |-> FALSE]
Some(v) == [some |-> TRUE, value |-> v]

PutIfAbsent(m, k, v) == [x \in (DOMAIN m) \cup {k} |-> IF x \in DOMAIN m THEN m[x] ELSE v]

\* DashMap::insert / INSERT OR REPLACE: the entry of key k becomes v
Put(m, k, v) == [x \in (DOMAIN m) \cup {k} |-> IF x = k THEN v ELSE m[x]]

\* DashMap::remove / DELETE ... WHERE book_id = k
Remove(m, k) == [x \in (DOMAIN m) \ {k} |-> m[x]]

\* the j first rows of SELECT book_id, embedding FROM embeddings: the table is scanned
\* in the order of its INTEGER PRIMARY KEY
FirstRows(d, j) == {id \in DOMAIN d : Cardinality({x \in DOMAIN d : x < id}) < j}

\* lines 76-82: the rows of `rows` inserted into the cache, a blob that does not
\* deserialize being skipped
LoadRows(c, d, rows) ==
    LET good == {id \in rows : deserialize_embedding(d[id]).ok}
    IN [id \in (DOMAIN c) \cup good |->
          IF id \in good THEN deserialize_embedding(d[id]).value ELSE c[id]]

\* load_cache, every row read
LoadedCount(d) == Cardinality({id \in DOMAIN d : deserialize_embedding(d[id]).ok})

\* lines 65-88, load_cache. io = Cardinality(DOMAIN durable) + 1 is a load no database
\* error interrupts; io = 0 fails to open or prepare; 0 < io <= rows fails on reading
\* the row after the io first ones (`row?`), those already being in the cache.
LoadCacheEffect(io) ==
    IF io > Cardinality(DOMAIN durable)
    THEN /\ cache' = LoadRows(cache, durable, DOMAIN durable)
         /\ cache_loaded' = TRUE
    ELSE /\ cache' = LoadRows(cache, durable, FirstRows(durable, io))
         /\ UNCHANGED cache_loaded

IoPoints == 0..(Cardinality(DOMAIN durable) + 1)

LoadCache(io) ==
    /\ LoadCacheEffect(io)
    /\ ret' = [op |-> "load_cache",
               value |-> IF io > Cardinality(DOMAIN durable)
                         THEN Ok(LoadedCount(durable)) ELSE Err("Database")]
    /\ UNCHANGED durable
    /\ UNCHANGED <<travVars, threadVars, rankVars, auxVars>>

DimensionOkAtMost(embedding) == embedding.len <= EMBEDDING_DIM

\* line 98: the length test of store_embedding
DimensionOk(embedding) == embedding.len = EMBEDDING_DIM

\* lines 91-119, store_embedding; io is whether the database calls succeed; previous
\* is what cache.insert returns, the entry it replaced (the code drops it)
StoreEmbedding(book_id, embedding, io) ==
    /\ IF ~DimensionOk(embedding)
       THEN /\ ret' = [op |-> "store_embedding", book_id |-> book_id,
                       embedding |-> embedding, value |-> Err("InvalidInput")]
            /\ UNCHANGED <<cache, durable>>
       ELSE IF ~io
       THEN /\ ret' = [op |-> "store_embedding", book_id |-> book_id,
                       embedding |-> embedding, value |-> Err("Database")]
            /\ UNCHANGED <<cache, durable>>
       ELSE /\ durable' = Put(durable, book_id, serialize_embedding(embedding))
            /\ cache' = Put(cache, book_id, embedding)
            /\ ret' = [op |-> "store_embedding", book_id |-> book_id,
                       embedding |-> embedding, value |-> Ok("unit"),
                       previous |-> IF book_id \in DOMAIN cache
                                    THEN Some(cache[book_id]) ELSE None]
    /\ UNCHANGED cache_loaded
    /\ UNCHANGED <<travVars, threadVars, rankVars, auxVars>>

\* lines 122-142: what get_embedding returns in a state
GetValue(c, d, book_id, io) ==
    IF book_id \in DOMAIN c THEN Some(c[book_id])
    ELSE IF ~io \/ book_id \notin DOMAIN d THEN None
    ELSE IF ~deserialize_embedding(d[book_id]).ok THEN None
    ELSE Some(deserialize_embedding(d[book_id]).value)

\* lines 122-142, get_embedding: the cache first, then the database, whose row is
\* put in the cache; faulted records that a database call of this call failed
GetEmbedding(book_id, io) ==
    LET v == GetValue(cache, durable, book_id, io)
    IN /\ ret' = [op |-> "get_embedding", book_id |-> book_id, value |-> v,
                  faulted |-> book_id \notin DOMAIN cache /\ ~io]
       /\ cache' = IF v.some THEN Put(cache, book_id, v.value) ELSE cache
       /\ UNCHANGED <<durable, cache_loaded>>
       /\ UNCHANGED <<travVars, threadVars, rankVars, auxVars>>

\* lines 195-210: what has_embedding returns in a state
HasValue(c, d, book_id, io) ==
    IF book_id \in DOMAIN c THEN TRUE ELSE io /\ book_id \in DOMAIN d

HasEmbedding(book_id, io) ==
    /\ ret' = [op |-> "has_embedding", book_id |-> book_id,
               value |-> HasValue(cache, durable, book_id, io)]
    /\ UNCHANGED <<cache, durable, cache_loaded>>
    /\ UNCHANGED <<travVars, threadVars, rankVars, auxVars>>

\* lines 145-150, delete_embedding; deleted_rows is what conn.execute returns and
\* evicted whether cache.remove found an entry (the code drops both values)
DeleteEmbedding(book_id, io) ==
    /\ IF ~io
       THEN /\ ret' = [op |-> "delete_embedding", book_id |-> book_id,
                       value |-> Err("Database")]
            /\ UNCHANGED <<cache, durable>>
       ELSE /\ durable' = Remove(durable, book_id)
            /\ cache' = Remove(cache, book_id)
            /\ ret' = [op |-> "delete_embedding", book_id |-> book_id,
                       value |-> Ok("unit"),
                       deleted_rows |-> IF book_id \in DOMAIN durable THEN 1 ELSE 0,
                       evicted |-> book_id \in DOMAIN cache]
    /\ UNCHANGED cache_loaded
    /\ UNCHANGED <<travVars, threadVars, rankVars, auxVars>>

ClearAllKeepCache(io) ==
    /\ IF ~io
       THEN /\ ret' = [op |-> "clear_all", value |-> Err("Database")]
            /\ UNCHANGED <<cache, durable>>
       ELSE /\ ret' = [op |-> "clear_all", value |-> Ok(Cardinality(DOMAIN durable))]
            /\ durable' = <<>>
            /\ UNCHANGED cache
    /\ UNCHANGED cache_loaded
    /\ UNCHANGED <<travVars, threadVars, rankVars, auxVars>>

\* lines 213-220, clear_all: count the rows, delete them, clear the cache
ClearAll(io) ==
    /\ IF ~io
       THEN /\ ret' = [op |-> "clear_all", value |-> Err("Database")]
            /\ UNCHANGED <<cache, durable>>
       ELSE /\ ret' = [op |-> "clear_all", value |-> Ok(Cardinality(DOMAIN durable))]
            /\ durable' = <<>>
            /\ cache' = <<>>
    /\ UNCHANGED cache_loaded
    /\ UNCHANGED <<travVars, threadVars, rankVars, auxVars>>

\* cosine_similarity, tabulated once over the vectors of the model
CosineTable ==
    [q \in Queries, v \in Embeddings \cup WrongDim |-> cosine_similarity(q, v)]

\* lines 159-168: the cache entries not excluded, in the order the map yields them,
\* each with its similarity to the query
Similarities(c, query_embedding, order) ==
    [i \in DOMAIN order |->
        [id |-> order[i], similarity |-> CosineTable[query_embedding, c[order[i]]]]]

\* line 171: the stable sort by descending similarity, one insertion
RECURSIVE InsertBySimilarity(_, _)
InsertBySimilarity(sorted, x) ==
    IF sorted = <<>> THEN <<x>>
    ELSE LET last == sorted[Len(sorted)]
         IN IF SimGT(x.similarity, last.similarity)
            THEN Append(InsertBySimilarity(SubSeq(sorted, 1, Len(sorted) - 1), x), last)
            ELSE Append(sorted, x)

RECURSIVE SortBySimilarity(_)
SortBySimilarity(s) ==
    IF s = <<>> THEN <<>>
    ELSE InsertBySimilarity(SortBySimilarity(SubSeq(s, 1, Len(s) - 1)), s[Len(s)])

TruncateOffByOne(s, k) == IF Len(s) <= k + 1 THEN s ELSE SubSeq(s, 1, k + 1)

\* line 174: Vec::truncate(k)
Truncate(s, k) == IF Len(s) <= k THEN s ELSE SubSeq(s, 1, k)

EligibleAll(c, exclude_ids) == DOMAIN c

\* line 162: the keys of the cache that exclude_ids does not contain
Eligible(c, exclude_ids) == (DOMAIN c) \ exclude_ids

\* lines 153-176, find_similar: load the cache if it is not loaded (the result of the
\* load is dropped), then rank the cache entries that are not excluded
FindSimilar(query_embedding, k, exclude_ids, io) ==
    /\ IF ~cache_loaded THEN LoadCacheEffect(io) ELSE UNCHANGED <<cache, cache_loaded>>
    /\ \E order \in Perms(Eligible(cache', exclude_ids)) :
          ret' = [op |-> "find_similar", k |-> k, exclude_ids |-> exclude_ids,
                  value |-> Truncate(
                      SortBySimilarity(Similarities(cache', query_embedding, order)), k),
                  faulted |-> ~cache_loaded /\ io <= Cardinality(DOMAIN durable)]
    /\ UNCHANGED durable
    /\ UNCHANGED <<travVars, threadVars, rankVars, auxVars>>

\* lines 27-38, VectorStore::new in a later run of the application: the cache starts
\* empty and not loaded, the database keeps its rows
Restart ==
    /\ cache' = <<>>
    /\ cache_loaded' = FALSE
    /\ ret' = [op |-> "new"]
    /\ UNCHANGED durable
    /\ UNCHANGED <<travVars, threadVars, rankVars, auxVars>>

NextVS ==
    \/ \E id \in Ids, v \in Embeddings \cup WrongDim, io \in BOOLEAN :
          StoreEmbedding(id, v, io)
    \/ \E id \in Ids, io \in BOOLEAN : GetEmbedding(id, io)
    \/ \E id \in Ids, io \in BOOLEAN : HasEmbedding(id, io)
    \/ \E id \in Ids, io \in BOOLEAN : DeleteEmbedding(id, io)
    \/ \E io \in BOOLEAN : ClearAll(io)
    \/ \E io \in IoPoints : LoadCache(io)
    \/ \E q \in Queries, k \in 0..MaxK, ex \in SUBSET Ids,
          io \in IF cache_loaded THEN {0} ELSE IoPoints :
          FindSimilar(q, k, ex, io)
    \/ Restart

\* a store no call has touched: the state after VectorStore::new on a new database
StoreIdle ==
    /\ cache = <<>>
    /\ durable = <<>>
    /\ cache_loaded = FALSE
    /\ ret = [op |-> "new"]

\* no traversal is running
TravIdle ==
    /\ graph = <<>>
    /\ seeds = <<>>
    /\ config = [max_hops |-> 0, min_weights |-> <<>>, decay_factor |-> DefaultDecay,
                 max_candidates |-> 0]
    /\ candidates = <<>>
    /\ visited = {}
    /\ frontier = <<>>
    /\ cur = NoEntry
    /\ pending = <<>>
    /\ result = <<>>
    /\ pc = "idle"
    /\ expanded = <<>>
    /\ discovered = <<>>
    /\ enqueued = 0

-----------------------------------------------------------------------------
(* The lazy warm-up: the thread AppState::new spawns to run load_cache, and *)
(* threads calling find_similar, interleaved step by step                  *)

MaxCallers == 2

\* thread 0 is the loader spawned at state.rs 74-78, the others call find_similar
Loader == 0
Callers == 1..MaxCallers
Threads == {Loader} \cup Callers

RECURSIVE Ascending(_)
Ascending(S) ==
    IF S = {} THEN <<>>
    ELSE LET m == CHOOSE x \in S : \A y \in S : x <= y
         IN <<m>> \o Ascending(S \ {m})

\* the position of thread t once its load_cache has returned: the loader thread ends,
\* find_similar goes on to rank the cache (line 156 drops the result of the load)
AfterLoad(t) == IF t = Loader THEN "done" ELSE "rank"

\* a thread calls find_similar
Call(t) ==
    /\ t \in Callers
    /\ tpc[t] = "idle"
    /\ tpc' = [tpc EXCEPT ![t] = "check"]
    /\ UNCHANGED <<cursor, answers, full_loads, storeVars, travVars, rankVars, auxVars>>

\* line 155: find_similar reads cache_loaded and releases the lock
CheckLoaded(t) ==
    /\ tpc[t] = "check"
    /\ tpc' = [tpc EXCEPT ![t] = IF cache_loaded THEN "rank" ELSE "open"]
    /\ UNCHANGED <<cursor, answers, full_loads, storeVars, travVars, rankVars, auxVars>>

\* lines 66-73: load_cache opens the database and starts the query over the rows
OpenRows(t) ==
    /\ tpc[t] = "open"
    /\ tpc' = [tpc EXCEPT ![t] = "rows"]
    /\ cursor' = [cursor EXCEPT ![t] = Ascending(DOMAIN durable)]
    /\ UNCHANGED <<answers, full_loads, storeVars, travVars, rankVars, auxVars>>

\* lines 76-82: load_cache reads the next row and inserts it into the cache
InsertRow(t) ==
    /\ tpc[t] = "rows"
    /\ cursor[t] # <<>>
    /\ cache' = LoadRows(cache, durable, {Head(cursor[t])})
    /\ cursor' = [cursor EXCEPT ![t] = Tail(cursor[t])]
    /\ UNCHANGED <<tpc, answers, full_loads, durable, cache_loaded, ret, travVars, rankVars, auxVars>>

\* lines 84-87: the rows are exhausted; load_cache sets cache_loaded and returns
SetLoaded(t) ==
    /\ tpc[t] = "rows"
    /\ cursor[t] = <<>>
    /\ cache_loaded' = TRUE
    /\ full_loads' = full_loads + 1
    /\ tpc' = [tpc EXCEPT ![t] = AfterLoad(t)]
    /\ UNCHANGED <<cursor, answers, cache, durable, ret, travVars, rankVars, auxVars>>

\* lines 66, 68, 73, 77: a database call of load_cache fails and `?` returns the error
LoadFails(t) ==
    /\ tpc[t] \in {"open", "rows"}
    /\ tpc' = [tpc EXCEPT ![t] = AfterLoad(t)]
    /\ cursor' = [cursor EXCEPT ![t] = <<>>]
    /\ UNCHANGED <<answers, full_loads, storeVars, travVars, rankVars, auxVars>>

\* lines 159-175: find_similar ranks the entries of the cache
Rank(t, query_embedding, k, exclude_ids) ==
    /\ tpc[t] = "rank"
    /\ \E order \in Perms(Eligible(cache, exclude_ids)) :
          answers' = [answers EXCEPT ![t] =
              Truncate(SortBySimilarity(Similarities(cache, query_embedding, order)), k)]
    /\ tpc' = [tpc EXCEPT ![t] = "done"]
    /\ UNCHANGED <<cursor, full_loads, storeVars, travVars, rankVars, auxVars>>

\* no thread is running
ThreadsIdle ==
    /\ tpc = <<>>
    /\ cursor = <<>>
    /\ answers = <<>>
    /\ full_loads = 0

\* the rows earlier runs of the application left in the database
StoredRows ==
    UNION {[S -> {serialize_embedding(v) : v \in Embeddings}] : S \in SUBSET Ids}

\* AppState::new: a new VectorStore over the database file, and the loader thread
\* spawned; no find_similar has been called yet
InitWarm ==
    /\ cache = <<>>
    /\ durable \in StoredRows
    /\ cache_loaded = FALSE
    /\ ret = [op |-> "new"]
    /\ tpc = [t \in Threads |-> IF t = Loader THEN "open" ELSE "idle"]
    /\ cursor = [t \in Threads |-> <<>>]
    /\ answers = [t \in Threads |-> <<>>]
    /\ full_loads = 0
    /\ TravIdle
    /\ RankIdle
    /\ AuxIdle

NextWarm ==
    \/ \E t \in Threads : Call(t)
    \/ \E t \in Threads : CheckLoaded(t)
    \/ \E t \in Threads : OpenRows(t)
    \/ \E t \in Threads : InsertRow(t)
    \/ \E t \in Threads : SetLoaded(t)
    \/ \E t \in Threads : LoadFails(t)
    \/ \E t \in Callers, q \in Queries, k \in 0..MaxK, ex \in SUBSET Ids : Rank(t, q, k, ex)

SpecWarm == InitWarm /\ [][NextWarm]_vars

\* one call of multi_hop_traversal, on any graph of the model
Init == TravInit /\ StoreIdle /\ ThreadsIdle /\ RankIdle /\ AuxIdle

Next == TravNext

Spec == Init /\ [][Next]_vars

\* one VectorStore and its callers, one call at a time
InitVS == StoreIdle /\ TravIdle /\ ThreadsIdle /\ RankIdle /\ AuxIdle

SpecVS == InitVS /\ [][NextVS]_vars

-----------------------------------------------------------------------------
(* Exact arithmetic on fractions [n, d] with d > 0, kept in lowest terms *)

Abs(x) == IF x < 0 THEN -x ELSE x

RECURSIVE GCD(_, _)
GCD(a, b) == IF b = 0 THEN a ELSE GCD(b, a % b)

Frac(n, d) == LET g == GCD(Abs(n), d) IN [n |-> n \div g, d |-> d \div g]

Zero == [n |-> 0, d |-> 1]

\* the least common denominator of two fractions
CommonDen(a, b) == a.d * (b.d \div GCD(a.d, b.d))

FAdd(a, b) ==
    LET l == CommonDen(a, b)
    IN Frac(a.n * (l \div a.d) + b.n * (l \div b.d), l)

FNeg(a) == [n |-> -a.n, d |-> a.d]

FSub(a, b) == FAdd(a, FNeg(b))

FMul(a, b) ==
    LET g1 == GCD(Abs(a.n), b.d)
        g2 == GCD(Abs(b.n), a.d)
    IN Frac((a.n \div g1) * (b.n \div g2), (a.d \div g2) * (b.d \div g1))

\* division by a positive integer (`x / k as f64`)
FDivInt(a, k) == FMul(a, [n |-> 1, d |-> k])

FAbs(a) == [n |-> Abs(a.n), d |-> a.d]

\* f64 `a < b`
FLT(a, b) ==
    LET l == CommonDen(a, b)
    IN a.n * (l \div a.d) < b.n * (l \div b.d)

FLE(a, b) == ~FLT(b, a)

\* f64::max
FMax(a, b) == IF FLT(a, b) THEN b ELSE a

-----------------------------------------------------------------------------
(* personalized_pagerank *)

MaxIter == 2

\* PageRankConfig::default(), the iteration count drawn from 0..MaxIter
PageRankConfig ==
    [damping : {[n |-> 17, d |-> 20]},
     preference_weight : {[n |-> 3, d |-> 10]},
     iterations : 0..MaxIter,
     epsilon : {[n |-> 1, d |-> 1000000]}]

\* BookGraph::node_count and id_to_node.keys(): add_edge creates a node for each endpoint
NodesOf(g) == {g[i].source : i \in DOMAIN g} \cup {g[i].target : i \in DOMAIN g}

\* the edges of the PageRank model: weights 0.5 and 1.0, self-loops included
PREdgeData ==
    {[source |-> s, target |-> t, weight |-> w, edge_type |-> "content"] :
        s \in Nodes, t \in Nodes, w \in {5, 10}}

\* The graphs of the PageRank model. The scores are sums over the edges, which exact
\* arithmetic makes independent of the order of the add_edge calls, so each
\* multiset of edges is listed once.
PRGraphs ==
    {g \in SeqsUpTo(PREdgeData, MaxEdges) :
        \A i \in 1..(Len(g) - 1) :
            \/ g[i].source < g[i + 1].source
            \/ /\ g[i].source = g[i + 1].source
               /\ \/ g[i].target < g[i + 1].target
                  \/ /\ g[i].target = g[i + 1].target
                     /\ g[i].weight <= g[i + 1].weight}

\* seed and preference lists: empty, one id, two ids, one id twice, an id no graph of
\* two edges need hold
PRLists == {<<>>, <<1>>, <<1, 2>>, <<2, 2>>, <<3>>}

Count(seq, x) == Cardinality({i \in DOMAIN seq : seq[i] = x})

MaxOf(a, b) == IF a < b THEN b ELSE a

\* line 285
InitialScore(g) == [n |-> 1, d |-> Cardinality(NodesOf(g))]

\* lines 290-309: the personalization map
Personalization(g, sds, prefs, cfg) ==
    IF Len(sds) + Len(prefs) > 0
    THEN LET seed_weight == FDivInt(FSub(One, cfg.preference_weight), MaxOf(Len(sds), 1))
             pref_weight == FDivInt(cfg.preference_weight, MaxOf(Len(prefs), 1))
         IN [x \in SeqToSet(sds) \cup SeqToSet(prefs) |->
                FAdd(FMul([n |-> Count(sds, x), d |-> 1], seed_weight),
                     FMul([n |-> Count(prefs, x), d |-> 1], pref_weight))]
    ELSE [x \in NodesOf(g) |-> InitialScore(g)]

\* line 330: personalization.get(&node).copied().unwrap_or(initial_score)
PersonalizationOf(pers, node, initial_score) ==
    IF node \in DOMAIN pers THEN pers[node] ELSE initial_score

\* lines 320-327: the contributions of the edges into node; edge i comes from
\* other_node = g[i].source, whose out-degree is neighbors(other_node).len().max(1)
RECURSIVE Inflow(_, _, _, _)
Inflow(g, sc, node, i) ==
    IF i = 0 THEN Zero
    ELSE LET e == g[i]
             out_degree == MaxOf(Len(neighbors(g, e.source)), 1)
             rest == Inflow(g, sc, node, i - 1)
         IN IF e.target = node
            THEN FAdd(rest, FDivInt(FMul(sc[e.source], [n |-> e.weight, d |-> 10]),
                                    out_degree))
            ELSE rest

\* lines 329-331: the new score of node
NodeScore(g, sc, pers, cfg, node) ==
    FAdd(FMul(cfg.damping, Inflow(g, sc, node, Len(g))),
         FMul(FSub(One, cfg.damping), PersonalizationOf(pers, node, InitialScore(g))))

NewScoresOfTargets(g, sc, pers, cfg) ==
    [node \in {g[i].target : i \in DOMAIN g} |-> NodeScore(g, sc, pers, cfg, node)]

\* lines 313-339: one power iteration
NewScores(g, sc, pers, cfg) == [node \in NodesOf(g) |-> NodeScore(g, sc, pers, cfg, node)]

\* lines 333-334: scores.get(&node).copied().unwrap_or(0.0) and the largest change
RECURSIVE MaxDiff(_, _, _)
MaxDiff(old, new, S) ==
    IF S = {} THEN Zero
    ELSE LET node == CHOOSE x \in S : TRUE
             old_score == IF node \in DOMAIN old THEN old[node] ELSE Zero
         IN FMax(MaxDiff(old, new, S \ {node}), FAbs(FSub(new[node], old_score)))

\* lines 342-344
Converged(old, new, cfg) == FLT(MaxDiff(old, new, DOMAIN new), cfg.epsilon)

\* the call's arguments
PRCalls == [seeds : PRLists, preferences : PRLists, config : PageRankConfig]

\* lines 276-309: the early return on the empty graph, the uniform scores and the
\* personalization map
PRBegin ==
    /\ ppc = "start"
    /\ IF Cardinality(NodesOf(graph)) = 0
       THEN /\ ppc' = "done"
            /\ UNCHANGED <<scores, personalization>>
       ELSE /\ scores' = [node \in NodesOf(graph) |-> InitialScore(graph)]
            /\ personalization' =
                  Personalization(graph, pr_call.seeds, pr_call.preferences, pr_call.config)
            /\ ppc' = "iterate"
    /\ UNCHANGED <<pr_call, iter>>
    /\ UNCHANGED <<mmr_call, selected, remaining, picks, mpc, fuse, rec, book_edges>>
    /\ UNCHANGED <<travVars, storeVars, threadVars, auxVars>>

\* lines 312-345: one pass of the for loop; it breaks once the scores have converged
PRIterate ==
    /\ ppc = "iterate"
    /\ iter < pr_call.config.iterations
    /\ scores' = NewScores(graph, scores, personalization, pr_call.config)
    /\ iter' = iter + 1
    /\ ppc' = IF Converged(scores, scores', pr_call.config) THEN "break" ELSE "iterate"
    /\ UNCHANGED <<pr_call, personalization>>
    /\ UNCHANGED <<mmr_call, selected, remaining, picks, mpc, fuse, rec, book_edges>>
    /\ UNCHANGED <<travVars, storeVars, threadVars, auxVars>>

\* line 347: the loop has ended; the scores are returned
PRReturn ==
    /\ \/ ppc = "break"
       \/ ppc = "iterate" /\ iter >= pr_call.config.iterations
    /\ ppc' = "done"
    /\ UNCHANGED <<pr_call, scores, personalization, iter>>
    /\ UNCHANGED <<mmr_call, selected, remaining, picks, mpc, fuse, rec, book_edges>>
    /\ UNCHANGED <<travVars, storeVars, threadVars, auxVars>>

\* a graph that no traversal is running on
GraphAtRest(g) ==
    /\ graph = g
    /\ seeds = <<>>
    /\ config = [max_hops |-> 0, min_weights |-> <<>>, decay_factor |-> DefaultDecay,
                 max_candidates |-> 0]
    /\ candidates = <<>>
    /\ visited = {}
    /\ frontier = <<>>
    /\ cur = NoEntry
    /\ pending = <<>>
    /\ result = <<>>
    /\ pc = "idle"
    /\ expanded = <<>>
    /\ discovered = <<>>
    /\ enqueued = 0

\* one call of personalized_pagerank, on any graph of the model
InitPR ==
    /\ \E g \in PRGraphs : GraphAtRest(g)
    /\ pr_call \in PRCalls
    /\ scores = <<>>
    /\ personalization = <<>>
    /\ iter = 0
    /\ ppc = "start"
    /\ mmr_call = <<>>
    /\ selected = <<>>
    /\ remaining = <<>>
    /\ picks = <<>>
    /\ mpc = "idle"
    /\ fuse = <<>>
    /\ rec = <<>>
    /\ book_edges = {}
    /\ StoreIdle
    /\ ThreadsIdle
    /\ AuxIdle

NextPR == PRBegin \/ PRIterate \/ PRReturn

SpecPR == InitPR /\ [][NextPR]_vars

-----------------------------------------------------------------------------
(* maximal_marginal_relevance *)

MaxPool == 3

\* the candidates of the MMR model: book_id and score; path and edge_types are
\* carried along unread. Two candidates may share an id or a score.
PoolIds == 1..2
PoolCandidates == [book_id : PoolIds, score : {[n |-> 1, d |-> 2], [n |-> 9, d |-> 10]}]

\* similarity functions, negative values included
SimilarityFns == [PoolIds \X PoolIds -> {[n |-> -1, d |-> 2], [n |-> 1, d |-> 2]}]

Lambdas == {Zero, [n |-> 7, d |-> 10], One}

MMRCalls ==
    [candidates : SeqsUpTo(PoolCandidates, MaxPool),
     similarity_fn : SimilarityFns,
     lambda : Lambdas,
     top_k : 0..(MaxPool + 1)]

\* lines 379-382: selected.iter().map(|s| similarity_fn(candidate.book_id, s.book_id))
\* .fold(0.0, f64::max), over the first i selected items
RECURSIVE FoldMax(_, _, _, _)
FoldMax(fn, candidate, sel, i) ==
    IF i = 0 THEN Zero
    ELSE FMax(FoldMax(fn, candidate, sel, i - 1), fn[<<candidate.book_id, sel[i].book_id>>])

\* lines 376-383
MaxSim(fn, candidate, sel) ==
    IF sel = <<>> THEN Zero ELSE FoldMax(fn, candidate, sel, Len(sel))

\* line 386: lambda * relevance - (1.0 - lambda) * max_sim
MMRScore(lambda, relevance, max_sim) ==
    FSub(FMul(lambda, relevance), FMul(FSub(One, lambda), max_sim))

\* lines 368-392: best_idx, the first index whose mmr is greater than every earlier
\* one; every mmr is greater than the initial NEG_INFINITY. Indices count from 1.
BestIdx(call, sel, rem) ==
    LET mmr(idx) == MMRScore(call.lambda, rem[idx].score,
                             MaxSim(call.similarity_fn, rem[idx], sel))
    IN CHOOSE idx \in DOMAIN rem :
          /\ \A j \in DOMAIN rem : ~FLT(mmr(idx), mmr(j))
          /\ \A j \in 1..(idx - 1) : FLT(mmr(j), mmr(idx))

\* Vec::remove
RemoveAt(seq, idx) == SubSeq(seq, 1, idx - 1) \o SubSeq(seq, idx + 1, Len(seq))

KeepSelectingOneMore(sel, top_k, rem) == Len(sel) <= top_k /\ rem # <<>>

\* line 367: the condition of the while loop
KeepSelecting(sel, top_k, rem) == Len(sel) < top_k /\ rem # <<>>

\* lines 360-365: the early return on an empty list, then the two working vectors
MMRBegin ==
    /\ mpc = "start"
    /\ IF mmr_call.candidates = <<>>
       THEN /\ mpc' = "done"
            /\ UNCHANGED <<selected, remaining>>
       ELSE /\ selected' = <<>>
            /\ remaining' = mmr_call.candidates
            /\ mpc' = "loop"
    /\ UNCHANGED <<mmr_call, picks>>
    /\ UNCHANGED <<pr_call, scores, personalization, iter, ppc, fuse, rec, book_edges>>
    /\ UNCHANGED <<travVars, storeVars, threadVars, auxVars>>

\* lines 367-395: one pass of the while loop moves the best remaining candidate
MMRSelect ==
    /\ mpc = "loop"
    /\ KeepSelecting(selected, mmr_call.top_k, remaining)
    /\ LET best_idx == BestIdx(mmr_call, selected, remaining)
       IN /\ selected' = Append(selected, remaining[best_idx])
          /\ remaining' = RemoveAt(remaining, best_idx)
          /\ picks' = Append(picks, [selected |-> selected, remaining |-> remaining,
                                     best_idx |-> best_idx])
    /\ UNCHANGED <<mmr_call, mpc>>
    /\ UNCHANGED <<pr_call, scores, personalization, iter, ppc, fuse, rec, book_edges>>
    /\ UNCHANGED <<travVars, storeVars, threadVars, auxVars>>

\* line 397: the loop has ended; selected is returned
MMRReturn ==
    /\ mpc = "loop"
    /\ ~KeepSelecting(selected, mmr_call.top_k, remaining)
    /\ mpc' = "done"
    /\ UNCHANGED <<mmr_call, selected, remaining, picks>>
    /\ UNCHANGED <<pr_call, scores, personalization, iter, ppc, fuse, rec, book_edges>>
    /\ UNCHANGED <<travVars, storeVars, threadVars, auxVars>>

\* one call of maximal_marginal_relevance
InitMMR ==
    /\ mmr_call \in MMRCalls
    /\ selected = <<>>
    /\ remaining = <<>>
    /\ picks = <<>>
    /\ mpc = "start"
    /\ pr_call = <<>>
    /\ scores = <<>>
    /\ personalization = <<>>
    /\ iter = 0
    /\ ppc = "idle"
    /\ fuse = <<>>
    /\ rec = <<>>
    /\ book_edges = {}
    /\ TravIdle
    /\ StoreIdle
    /\ ThreadsIdle
    /\ AuxIdle

NextMMR == MMRBegin \/ MMRSelect \/ MMRReturn

SpecMMR == InitMMR /\ [][NextMMR]_vars

-----------------------------------------------------------------------------
(* compute_all_edge_weights *)

\* Option<String> values of Book.author and Book.series: absent, the empty string, two
\* names
Texts == {None, Some(""), Some("A"), Some("B")}

\* Option<f64> values of Book.series_index, in halves: absent, 1.0, 2.0, 3.5
SeriesIndexes == {None, Some(2), Some(4), Some(7)}

\* the fields of db::Book the function reads
Books == [author : Texts, series : Texts, series_index : SeriesIndexes]

\* Option<f64> similarities in hundredths: absent, -0.5, 0.30, 0.31, 1.0
EmbeddingSimilarities == {None, Some(-50), Some(30), Some(31), Some(100)}

\* lines 517-521: the content edge
ContentEdges(embedding_similarity) ==
    IF embedding_similarity.some /\ embedding_similarity.value > 30
    THEN <<[weight |-> embedding_similarity.value, edge_type |-> "content"]>>
    ELSE <<>>

\* lines 524-526: the author edge
AuthorEdges(book_a, book_b) ==
    IF book_a.author.some /\ book_a.author = book_b.author
    THEN <<[weight |-> 85, edge_type |-> "author"]>>
    ELSE <<>>

\* lines 530-534: the match on the two series positions, held in halves
SeriesSim(a, b) ==
    IF a.some /\ b.some /\ Abs(a.value - b.value) <= 2 THEN 95
    ELSE IF a.some /\ b.some THEN 75
    ELSE 70

\* lines 529-536: the series edge
SeriesEdges(book_a, book_b) ==
    IF book_a.series.some /\ book_a.series = book_b.series
    THEN <<[weight |-> SeriesSim(book_a.series_index, book_b.series_index),
            edge_type |-> "series"]>>
    ELSE <<>>

\* compute_all_edge_weights, weights in hundredths
compute_all_edge_weights(book_a, book_b, embedding_similarity) ==
    ContentEdges(embedding_similarity) \o AuthorEdges(book_a, book_b)
        \o SeriesEdges(book_a, book_b)

\* one call of compute_all_edge_weights
ComputeAllEdgeWeights ==
    /\ "edges" \notin DOMAIN fuse
    /\ fuse' = [book_a |-> fuse.book_a, book_b |-> fuse.book_b,
                embedding_similarity |-> fuse.embedding_similarity,
                edges |-> compute_all_edge_weights(fuse.book_a, fuse.book_b,
                                                   fuse.embedding_similarity)]
    /\ UNCHANGED <<pr_call, scores, personalization, iter, ppc,
                   mmr_call, selected, remaining, picks, mpc, rec, book_edges>>
    /\ UNCHANGED <<travVars, storeVars, threadVars, auxVars>>

InitFuse ==
    /\ fuse \in [book_a : Books, book_b : Books,
                 embedding_similarity : EmbeddingSimilarities]
    /\ pr_call = <<>>
    /\ scores = <<>>
    /\ personalization = <<>>
    /\ iter = 0
    /\ ppc = "idle"
    /\ mmr_call = <<>>
    /\ selected = <<>>
    /\ remaining = <<>>
    /\ picks = <<>>
    /\ mpc = "idle"
    /\ rec = <<>>
    /\ book_edges = {}
    /\ TravIdle
    /\ StoreIdle
    /\ ThreadsIdle
    /\ AuxIdle

NextFuse == ComputeAllEdgeWeights

SpecFuse == InitFuse /\ [][NextFuse]_vars

-----------------------------------------------------------------------------
(* Building a BookGraph: add_edge and from_database *)

\* the f64 weights add_edge is called with, in tenths: -0.1, 0.5, 1.1
AnyWeights == {-1, 5, 11}

\* the rows table book_edges can hold, (source_id, target_id, edge_type) being its
\* primary key: migrations.rs 175-176 CHECK (source_id != target_id) and
\* CHECK (weight >= 0 AND weight <= 1)
RowOk(r) == r.source # r.target /\ r.weight >= 0 /\ r.weight <= 10

EdgeTables ==
    {T \in
        {{},
         {[source |-> 1, target |-> 2, weight |-> 5, edge_type |-> "content"]},
         {[source |-> 1, target |-> 2, weight |-> 5, edge_type |-> "content"],
          [source |-> 2, target |-> 1, weight |-> 5, edge_type |-> "author"]},
         {[source |-> 1, target |-> 2, weight |-> 10, edge_type |-> "content"],
          [source |-> 2, target |-> 3, weight |-> 0, edge_type |-> "content"]}} :
        \A r \in T : RowOk(r)}

\* lines 89-98: add_edge creates the two nodes as needed and appends the edge
AddEdge(source, target, weight, edge_type) ==
    /\ pc = "idle"
    /\ Len(graph) < MaxEdges
    /\ graph' = Append(graph, [source |-> source, target |-> target, weight |-> weight,
                               edge_type |-> edge_type])
    /\ bg' = add_edge(bg, source, target, weight, edge_type)
    /\ UNCHANGED <<seeds, config, candidates, visited, frontier, cur, pending, result,
                   pc, expanded, discovered, enqueued>>
    /\ UNCHANGED <<storeVars, threadVars, rankVars, dbVars, workerVars, codecVars>>

\* rows is the result of ORDER BY weight DESC on the set S of rows
WeightDescending(rows, S) ==
    /\ SeqToSet(rows) = S
    /\ Len(rows) = Cardinality(S)
    /\ \A i \in 1..(Len(rows) - 1) : rows[i].weight >= rows[i + 1].weight

\* lines 44-74: from_database builds a new graph with one add_edge per row of weight
\* min_weight or more, heaviest first; a failing query or row returns the error and
\* no graph
FromDatabase(min_weight, io_ok) ==
    /\ pc = "idle"
    /\ IF io_ok
       THEN LET S == {r \in book_edges : r.weight >= min_weight}
            IN \E rows \in [1..Cardinality(S) -> S] :
                  /\ WeightDescending(rows, S)
                  /\ graph' = rows
                  /\ bg' = BuildGraph(rows)
       ELSE UNCHANGED <<graph, bg>>
    /\ UNCHANGED <<seeds, config, candidates, visited, frontier, cur, pending, result,
                   pc, expanded, discovered, enqueued>>
    /\ UNCHANGED <<storeVars, threadVars, rankVars, dbVars, workerVars, codecVars>>

\* BookGraph::new(), over a database whose table book_edges holds rows that passed
\* its CHECK constraints
InitGraph ==
    /\ GraphAtRest(<<>>)
    /\ pr_call = <<>>
    /\ scores = <<>>
    /\ personalization = <<>>
    /\ iter = 0
    /\ ppc = "idle"
    /\ mmr_call = <<>>
    /\ selected = <<>>
    /\ remaining = <<>>
    /\ picks = <<>>
    /\ mpc = "idle"
    /\ fuse = <<>>
    /\ rec = <<>>
    /\ book_edges \in EdgeTables
    /\ StoreIdle
    /\ ThreadsIdle
    /\ AuxIdle

NextGraph ==
    \/ \E source \in Nodes, target \in Nodes, weight \in AnyWeights,
          edge_type \in {"content", "author"} : AddEdge(source, target, weight, edge_type)
    \/ \E min_weight \in {0, 5}, io_ok \in BOOLEAN : FromDatabase(min_weight, io_ok)

SpecGraph == InitGraph /\ [][NextGraph]_vars

-----------------------------------------------------------------------------
(* generate_recommendations: the traversal stage *)

\* TraversalConfig::default()
DefaultConfig ==
    [max_hops |-> 3, min_weights |-> DefaultMinWeights, decay_factor |-> DefaultDecay,
     max_candidates |-> 500]

\* the graph of tests::test_multi_hop_traversal: 1 -> 2 (0.9), 2 -> 3 (0.8), 3 -> 4 (0.7)
ChainGraph ==
    <<[source |-> 1, target |-> 2, weight |-> 9, edge_type |-> "content"],
      [source |-> 2, target |-> 3, weight |-> 8, edge_type |-> "content"],
      [source |-> 3, target |-> 4, weight |-> 7, edge_type |-> "content"]>>

\* the graphs generate_recommendations is called on in the model
RecGraphs == Graphs \cup {ChainGraph}

\* lines 418-420: generate_recommendations calls multi_hop_traversal with the one seed
\* source_book_id and the default configuration. The source is book 1: Graphs holds
\* every renaming of each of its graphs.
InitRec ==
    /\ graph \in RecGraphs
    /\ seeds = <<1>>
    /\ config = DefaultConfig
    /\ candidates = <<>>
    /\ visited = {}
    /\ frontier = <<>>
    /\ cur = NoEntry
    /\ pending = <<>>
    /\ result = <<>>
    /\ pc = "start"
    /\ expanded = <<>>
    /\ discovered = <<>>
    /\ enqueued = 0
    /\ StoreIdle
    /\ ThreadsIdle
    /\ AuxIdle
    /\ RankIdle

\* the power iterations that remain, k at most: lines 312-345 as a function
RECURSIVE PowerIterations(_, _, _, _, _)
PowerIterations(g, sc, pers, cfg, k) ==
    IF k = 0 THEN sc
    ELSE LET new_scores == NewScores(g, sc, pers, cfg)
         IN IF Converged(sc, new_scores, cfg) THEN new_scores
            ELSE PowerIterations(g, new_scores, pers, cfg, k - 1)

\* personalized_pagerank as a function of its arguments
personalized_pagerank(g, sds, prefs, cfg) ==
    IF Cardinality(NodesOf(g)) = 0 THEN <<>>
    ELSE PowerIterations(g, [node \in NodesOf(g) |-> InitialScore(g)],
                         Personalization(g, sds, prefs, cfg), cfg, cfg.iterations)

\* the while loop of maximal_marginal_relevance as a function: lines 367-397
RECURSIVE SelectLoop(_, _, _)
SelectLoop(call, sel, rem) ==
    IF KeepSelecting(sel, call.top_k, rem)
    THEN LET best_idx == BestIdx(call, sel, rem)
         IN SelectLoop(call, Append(sel, rem[best_idx]), RemoveAt(rem, best_idx))
    ELSE sel

\* maximal_marginal_relevance as a function of its arguments
maximal_marginal_relevance(cands, fn, lambda, top_k) ==
    IF cands = <<>> THEN <<>>
    ELSE SelectLoop([similarity_fn |-> fn, lambda |-> lambda, top_k |-> top_k],
                    <<>>, cands)

MaxLimit == 2
MaxRecIter == 1

\* PageRankConfig::default(); of its 20 iterations the model runs the first MaxRecIter
DefaultPageRankConfig ==
    [damping |-> [n |-> 17, d |-> 20], preference_weight |-> [n |-> 3, d |-> 10],
     iterations |-> MaxRecIter, epsilon |-> [n |-> 1, d |-> 1000000]]

CombinedScoreEven(traversal_score, pr_score) ==
    FAdd(FMul([n |-> 1, d |-> 2], traversal_score), FMul([n |-> 1, d |-> 2], pr_score))

\* line 440: 0.7 * c.score + 0.3 * pr_score
CombinedScore(traversal_score, pr_score) ==
    FAdd(FMul([n |-> 7, d |-> 10], traversal_score), FMul([n |-> 3, d |-> 10], pr_score))

\* lines 436-451: one RecommendationScore per traversal candidate, in their order
Scored(cands, pagerank_scores) ==
    [i \in DOMAIN cands |->
        LET c == cands[i]
            pr_score == IF c.book_id \in DOMAIN pagerank_scores
                        THEN pagerank_scores[c.book_id] ELSE Zero
        IN [book_id |-> c.book_id, traversal_score |-> c.score,
            pagerank_score |-> pr_score,
            combined_score |-> CombinedScore(c.score, pr_score),
            path |-> c.path, edge_types |-> c.edge_types]]

\* scored.iter().find(|s| s.book_id == id): the first entry with that id
FindScored(scored, id) ==
    LET hits == {i \in DOMAIN scored : scored[i].book_id = id}
    IN IF hits = {} THEN None
       ELSE Some(scored[CHOOSE i \in hits : \A j \in hits : i <= j])

\* lines 466-471: the similarity closure, 1.0 - |score_a - score_b|
ScoreSimilarity(scored) ==
    LET ids == {scored[i].book_id : i \in DOMAIN scored}
        score_of(id) == IF FindScored(scored, id).some
                        THEN FindScored(scored, id).value.combined_score ELSE Zero
    IN [ab \in ids \X ids |-> FSub(One, FAbs(FSub(score_of(ab[1]), score_of(ab[2]))))]

\* lines 454-462: the candidates handed to MMR carry the combined score
ScoredCandidates(scored) ==
    [i \in DOMAIN scored |->
        [book_id |-> scored[i].book_id, score |-> scored[i].combined_score,
         path |-> scored[i].path, edge_types |-> scored[i].edge_types]]

\* lines 478-485: filter_map over the diverse list
RECURSIVE FilterFound(_, _)
FilterFound(diverse, scored) ==
    IF diverse = <<>> THEN <<>>
    ELSE LET hit == FindScored(scored, Head(diverse).book_id)
             rest == FilterFound(Tail(diverse), scored)
         IN IF hit.some THEN <<hit.value>> \o rest ELSE rest

\* lines 422-485: the stages of generate_recommendations after the traversal returned
Recommend(user_highly_rated, limit) ==
    /\ pc = "done"
    /\ rec = <<>>
    /\ IF result = <<>>
       THEN rec' = [source_book_id |-> seeds[1], user_highly_rated |-> user_highly_rated,
                    limit |-> limit, pagerank_scores |-> <<>>, value |-> <<>>]
       ELSE LET pagerank_scores == personalized_pagerank(graph, seeds, user_highly_rated,
                                                         DefaultPageRankConfig)
                scored == Scored(result, pagerank_scores)
                diverse == maximal_marginal_relevance(ScoredCandidates(scored),
                              ScoreSimilarity(scored), [n |-> 7, d |-> 10], limit)
            IN rec' = [source_book_id |-> seeds[1], user_highly_rated |-> user_highly_rated,
                       limit |-> limit, pagerank_scores |-> pagerank_scores,
                       value |-> FilterFound(diverse, scored)]
    /\ UNCHANGED <<pr_call, scores, personalization, iter, ppc,
                   mmr_call, selected, remaining, picks, mpc, fuse, book_edges>>
    /\ UNCHANGED <<travVars, storeVars, threadVars, auxVars>>

NextRec ==
    \/ TravNext
    \/ \E user_highly_rated \in PRLists, limit \in 0..MaxLimit :
          Recommend(user_highly_rated, limit)

SpecRec == InitRec /\ [][NextRec]_vars

-----------------------------------------------------------------------------
(* Properties of multi_hop_traversal *)

Returned == {result[i] : i \in DOMAIN result}

\* C1: the candidate map never holds more than max_candidates entries, at any point of
\* the traversal, and the returned list is no longer than max_candidates.
C1_CandidateCap ==
    /\ Cardinality(DOMAIN candidates) <= config.max_candidates
    /\ pc = "done" => Len(result) <= config.max_candidates

\* C2: no returned candidate is one of the seeds.
C2_NoSeedReturned ==
    pc = "done" => \A c \in Returned : c.book_id \notin SeqToSet(seeds)

\* a seed was reached again through a cycle, and something is returned
C2_Witness ==
    /\ pc = "done"
    /\ result # <<>>
    /\ \E i \in DOMAIN discovered :
          /\ discovered[i].book_id \in SeqToSet(seeds)
          /\ Len(discovered[i].path) > 2

\* C3: no node is expanded at a hop depth >= max_hops; every returned path has at most
\* max_hops edges; with max_hops = 0 nothing is returned.
C3_HopLimit ==
    /\ \A i \in DOMAIN expanded : expanded[i].hop < config.max_hops
    /\ pc = "done" =>
          /\ \A c \in Returned :
                /\ Len(c.path) <= config.max_hops + 1
                /\ Len(c.edge_types) <= config.max_hops
          /\ config.max_hops = 0 => result = <<>>

\* a returned candidate sits at the hop limit, has an edge that passes every threshold,
\* and the candidate cap was not what kept it from being expanded
C3_Witness ==
    /\ pc = "done"
    /\ config.max_hops > 0
    /\ \E c \in Returned :
          /\ Len(c.path) = config.max_hops + 1
          /\ \E i \in DOMAIN graph : graph[i].source = c.book_id /\ graph[i].weight = 9
          /\ \A i \in DOMAIN expanded : expanded[i].node # c.book_id
    /\ Cardinality(DOMAIN candidates) < config.max_candidates

\* the discoveries of one candidate, by position in the order of discovery
Discoveries(id) == {i \in DOMAIN discovered : discovered[i].book_id = id}

\* discovery i is the one the rule "replace only if strictly greater" retains: it beats
\* every earlier discovery of its candidate and no later one beats it
Retained(i) ==
    \A j \in Discoveries(discovered[i].book_id) :
        /\ j < i => ScoreGT(discovered[i].score, discovered[j].score)
        /\ j > i => ~ScoreGT(discovered[j].score, discovered[i].score)

\* C9: a candidate record is, score, path and edge types together, the first of its
\* highest-scoring discoveries; so a later discovery replaced it only with a strictly
\* greater score.
C9_BestDiscoveryKept ==
    /\ \A id \in DOMAIN candidates :
          \E i \in Discoveries(id) : Retained(i) /\ candidates[id] = discovered[i]
    /\ pc = "done" =>
          \A c \in Returned :
              \E i \in Discoveries(c.book_id) : Retained(i) /\ c = discovered[i]

\* a returned candidate was discovered several times and a later discovery replaced
\* the first record
C9_Witness ==
    /\ pc = "done"
    /\ \E c \in Returned :
          \E i, j \in Discoveries(c.book_id) :
              /\ i < j
              /\ ScoreGT(discovered[j].score, discovered[i].score)
              /\ c = discovered[j]

\* C10: each node is expanded at most once.
C10_ExpandedOnce ==
    \A i, j \in DOMAIN expanded : i # j => expanded[i].node # expanded[j].node

-----------------------------------------------------------------------------
(* Properties of the VectorStore, one call at a time *)

\* C4: store_embedding with a vector whose length is not EMBEDDING_DIM returns an error
\* and leaves the cache, the database and the loaded flag as they were.
C4_WrongDimensionRejected ==
    [][(ret'.op = "store_embedding" /\ ret'.embedding.len # EMBEDDING_DIM)
          => /\ ~ret'.value.ok
             /\ cache' = cache
             /\ durable' = durable
             /\ cache_loaded' = cache_loaded]_vars

\* a vector of another length was refused for an id that has a cache entry and a row
C4_Witness ==
    /\ ret.op = "store_embedding"
    /\ ret.embedding.len # EMBEDDING_DIM
    /\ ~ret.value.ok
    /\ ret.book_id \in DOMAIN cache
    /\ ret.book_id \in DOMAIN durable

StoredOk == ret.op = "store_embedding" /\ ret.value.ok

\* C5: once store_embedding(id, v) has succeeded the cache entry and the row of id hold
\* v, whatever they held before, and a get_embedding(id) that follows returns v.
C5_StoreThenGet ==
    [][StoredOk =>
          /\ ret.book_id \in DOMAIN cache
          /\ cache[ret.book_id] = ret.embedding
          /\ ret.book_id \in DOMAIN durable
          /\ deserialize_embedding(durable[ret.book_id]) = Ok(ret.embedding)
          /\ (ret'.op = "get_embedding" /\ ret'.book_id = ret.book_id)
                => ret'.value = Some(ret.embedding)]_vars

\* a successful store replaced a cache entry that held another vector
C5_Witness ==
    /\ StoredOk
    /\ ret.previous.some
    /\ ret.previous.value # ret.embedding

DeletedOk == ret.op = "delete_embedding" /\ ret.value.ok

ClearedOk == ret.op = "clear_all" /\ ret.value.ok

\* id is in neither tier, and the call that follows does not find it
Gone(id) ==
    /\ id \notin DOMAIN cache
    /\ id \notin DOMAIN durable
    /\ (ret'.op = "get_embedding" /\ ret'.book_id = id) => ret'.value = None
    /\ (ret'.op = "has_embedding" /\ ret'.book_id = id) => ret'.value = FALSE
    /\ ret'.op = "find_similar" => \A i \in DOMAIN ret'.value : ret'.value[i].id # id

\* C8: after delete_embedding(id) returned Ok, id is in neither the cache nor the
\* database, and get_embedding, has_embedding and find_similar do not find it; after
\* clear_all returned Ok(n) that holds of every id, and n is the number of rows the
\* database held before the call.
C8_DeleteAndClearBothTiers ==
    [][/\ DeletedOk => Gone(ret.book_id)
       /\ ClearedOk => \A id \in Ids : Gone(id)
       /\ (ret'.op = "clear_all" /\ ret'.value.ok)
             => ret'.value.value = Cardinality(DOMAIN durable)]_vars

\* delete_embedding removed a row and a cache entry
C8_Witness ==
    /\ DeletedOk
    /\ ret.deleted_rows = 1
    /\ ret.evicted

-----------------------------------------------------------------------------
(* The lazy warm-up under concurrent callers (SpecWarm)                     *)

\* every thread has returned
AllReturned == \A t \in Threads : tpc[t] = "done"

\* what one run of load_cache on an empty cache produces
SingleLoad == LoadRows(<<>>, durable, DOMAIN durable)

\* C7: with the loader thread and the callers of find_similar running together, the
\* full load of the cache is executed at most once, and once a load has completed
\* the cache holds what a single load would produce.
C7_LoadAtMostOnce ==
    /\ full_loads <= 1
    /\ cache_loaded => cache = SingleLoad

\* the half of C7 the code does keep: a completed load leaves the cache as a single
\* load would, however many loads ran
C7_CacheAsSingleLoad == cache_loaded => cache = SingleLoad

-----------------------------------------------------------------------------
(* Properties of the traversal stage of generate_recommendations (SpecRec) *)

\* f64 `a == b` on fractions
ScoreEQ(a, b) == a.n * b.d = b.n * a.d

\* the traversal of the chain graph from seed 1 has returned
ChainReturned == graph = ChainGraph /\ seeds = <<1>> /\ pc = "done"

\* C11: on the graph 1 -> 2 (0.9), 2 -> 3 (0.8), 3 -> 4 (0.7) the traversal from seed 1
\* with the default configuration returns the candidates 2, 3 and 4 with strictly
\* decreasing scores: 0.9 = 1 * 0.9 * 0.75^0, 0.54 = 0.9 * 0.8 * 0.75^1 and
\* 0.212625 = 0.54 * 0.7 * 0.75^2.
C11_ChainScores ==
    ChainReturned =>
        /\ Len(result) = 3
        /\ result[1].book_id = 2 /\ ScoreEQ(result[1].score, [n |-> 9, d |-> 10])
        /\ result[2].book_id = 3 /\ ScoreEQ(result[2].score, [n |-> 27, d |-> 50])
        /\ result[3].book_id = 4 /\ ScoreEQ(result[3].score, [n |-> 1701, d |-> 8000])
        /\ ScoreGT(result[1].score, result[2].score)
        /\ ScoreGT(result[2].score, result[3].score)

\* the traversal of the chain graph returned, having expanded nodes 1, 2 and 3
C11_Witness ==
    /\ ChainReturned
    /\ Len(expanded) = 3
    /\ Len(result) = 3

-----------------------------------------------------------------------------
(* Properties of personalized_pagerank (SpecPR) *)

RECURSIVE SumOver(_, _)
SumOver(f, S) ==
    IF S = {} THEN Zero
    ELSE LET x == CHOOSE y \in S : TRUE IN FAdd(f[x], SumOver(f, S \ {x}))

\* C12: personalized_pagerank returns a map whose keys are exactly the nodes of the
\* graph (the empty map for the empty graph), whatever the seeds, the preferences and
\* the iteration count, and the map has those keys after every iteration.
C12_EveryNodeScored ==
    /\ ppc \in {"iterate", "break"} => DOMAIN scores = NodesOf(graph)
    /\ ppc = "done" => DOMAIN scores = NodesOf(graph)

\* a call with a seed that is no node of the graph and an iteration count of 0 returned
C12_Witness ==
    /\ ppc = "done"
    /\ graph # <<>>
    /\ pr_call.config.iterations = 0
    /\ \E i \in DOMAIN pr_call.seeds : pr_call.seeds[i] \notin NodesOf(graph)
    /\ \E x \in NodesOf(graph) : \A i \in DOMAIN graph : graph[i].target # x

\* C13: with edge weights in [0,1], damping 0.85 and preference weight 0.3, after
\* every power iteration each node's score lies in [0,1] and the sum of the scores
\* stays below the fixed bound 2.
C13_ScoresBounded ==
    ppc \in {"iterate", "break", "done"} =>
        /\ \A node \in DOMAIN scores : FLE(Zero, scores[node]) /\ FLE(scores[node], One)
        /\ FLE(SumOver(scores, DOMAIN scores), [n |-> 2, d |-> 1])

\* what the code does keep of C13: on a graph without an edge from a node to itself
\* the scores stay in [0,1] and their sum below 2
C13_BoundedWithoutSelfLoop ==
    (\A i \in DOMAIN graph : graph[i].source # graph[i].target) => C13_ScoresBounded

\* the personalization the update of line 331 uses for each node of the graph
UsedPersonalization ==
    [node \in NodesOf(graph) |->
        PersonalizationOf(personalization, node, InitialScore(graph))]

\* seeds and preferences are both non-empty and hold only nodes of the graph
ListedNodes == SeqToSet(pr_call.seeds) \cup SeqToSet(pr_call.preferences)

BothGiven ==
    /\ pr_call.seeds # <<>>
    /\ pr_call.preferences # <<>>
    /\ ListedNodes \subseteq NodesOf(graph)

\* C14: when seeds and preferences are both non-empty sets of graph nodes, the
\* personalization used in the update has total mass 1, the preferences receiving
\* preference_weight and the seeds the rest, and a node that is neither a seed nor a
\* preference is updated with personalization 0.
C14_PersonalizationMass ==
    (iter >= 1 /\ BothGiven) =>
        /\ SumOver(UsedPersonalization, NodesOf(graph)) = One
        /\ \A node \in NodesOf(graph) \ ListedNodes : UsedPersonalization[node] = Zero

\* the part of C14 the code keeps: the entries of the personalization map sum to 1
C14_ListedMass ==
    (ppc \in {"iterate", "break", "done"} /\ BothGiven) =>
        SumOver(personalization, DOMAIN personalization) = One

-----------------------------------------------------------------------------
(* Properties of maximal_marginal_relevance (SpecMMR) *)

\* C15: with top_k = 1 and a non-empty candidate list, whatever the similarity
\* function and lambda, exactly one candidate is returned and no candidate of the
\* list has a higher score.
C15_TopOneIsBest ==
    (mpc = "done" /\ mmr_call.top_k = 1 /\ mmr_call.candidates # <<>>) =>
        /\ Len(selected) = 1
        /\ \A i \in DOMAIN mmr_call.candidates :
              ~FLT(selected[1].score, mmr_call.candidates[i].score)

\* what the code does keep of C15: the same for a lambda greater than 0
C15_TopOneIsBestPositiveLambda == FLT(Zero, mmr_call.lambda) => C15_TopOneIsBest

Min(a, b) == IF a < b THEN a ELSE b

\* the entries of sel come from pairwise distinct positions of cands
FromDistinctPositions(sel, cands) ==
    \E f \in [DOMAIN sel -> DOMAIN cands] :
        /\ \A i, j \in DOMAIN sel : i # j => f[i] # f[j]
        /\ \A i \in DOMAIN sel : cands[f[i]] = sel[i]

\* C16: maximal_marginal_relevance returns min(top_k, number of candidates) entries,
\* taken from pairwise distinct positions of the input; so top_k >= the number of
\* candidates returns them all, and an empty input or top_k = 0 returns nothing.
C16_SelectedCount ==
    mpc = "done" =>
        /\ Len(selected) = Min(mmr_call.top_k, Len(mmr_call.candidates))
        /\ FromDistinctPositions(selected, mmr_call.candidates)

\* a call with top_k above the number of candidates returned all three of them
C16_Witness ==
    /\ mpc = "done"
    /\ Len(mmr_call.candidates) = 3
    /\ mmr_call.top_k > 3
    /\ Len(selected) = 3

\* the maximum of similarity_fn(candidate, s) over the selected items s (sel not empty)
RECURSIVE TrueMaxSim(_, _, _, _)
TrueMaxSim(fn, candidate, sel, i) ==
    IF i = 1 THEN fn[<<candidate.book_id, sel[1].book_id>>]
    ELSE FMax(TrueMaxSim(fn, candidate, sel, i - 1),
              fn[<<candidate.book_id, sel[i].book_id>>])

\* lambda * score - (1 - lambda) * M for a remaining candidate
Marginal(candidate, sel) ==
    MMRScore(mmr_call.lambda, candidate.score,
             IF sel = <<>> THEN Zero
             ELSE TrueMaxSim(mmr_call.similarity_fn, candidate, sel, Len(sel)))

\* the pick of selection step p has the largest marginal value of the remaining ones
PickIsMaximal(p) ==
    \A j \in DOMAIN p.remaining :
        ~FLT(Marginal(p.remaining[p.best_idx], p.selected),
             Marginal(p.remaining[j], p.selected))

\* C17: at every selection step the candidate picked maximizes
\* lambda * score - (1 - lambda) * M over the remaining candidates, M being the
\* maximum similarity to the items selected so far and 0 for the first pick, for any
\* similarity function, negative values included.
C17_PickMaximizesMarginal == \A i \in DOMAIN picks : PickIsMaximal(picks[i])

\* what the code does keep of C17: the same when no similarity is negative
C17_PickMaximizesNonNegative ==
    (\A x \in DOMAIN mmr_call.similarity_fn : ~FLT(mmr_call.similarity_fn[x], Zero))
        => C17_PickMaximizesMarginal

-----------------------------------------------------------------------------
(* Properties of generate_recommendations (SpecRec) *)

\* the candidate the traversal returned for book id, if any
TraversalEntries(id) == {i \in DOMAIN result : result[i].book_id = id}

\* entry e of the returned list is a traversal candidate with the fused score
FusedFromTraversal(e) ==
    /\ e.book_id # rec.source_book_id
    /\ \E i \in TraversalEntries(e.book_id) :
          /\ e.traversal_score = result[i].score
          /\ e.pagerank_score = IF e.book_id \in DOMAIN rec.pagerank_scores
                                THEN rec.pagerank_scores[e.book_id] ELSE Zero
          /\ FSub(e.combined_score,
                  FAdd(FMul([n |-> 7, d |-> 10], result[i].score),
                       FMul([n |-> 3, d |-> 10], e.pagerank_score))) = Zero

\* C18: generate_recommendations returns at most limit entries with pairwise distinct
\* book_ids; each is a candidate of the traversal seeded at the source and not the
\* source; its combined_score is 0.7 * traversal_score + 0.3 * pagerank_score, the
\* latter 0 without a PageRank entry; an empty traversal gives an empty result.
C18_Recommendations ==
    rec # <<>> =>
        /\ Len(rec.value) <= rec.limit
        /\ \A i, j \in DOMAIN rec.value :
              i # j => rec.value[i].book_id # rec.value[j].book_id
        /\ \A i \in DOMAIN rec.value : FusedFromTraversal(rec.value[i])
        /\ result = <<>> => rec.value = <<>>

\* a call returned limit = 1 entry out of two traversal candidates
C18_Witness ==
    /\ rec # <<>>
    /\ Len(result) = 2
    /\ rec.limit = 1
    /\ Len(rec.value) = 1

-----------------------------------------------------------------------------
(* Properties of compute_all_edge_weights (SpecFuse) *)

\* an author or series that is present and not the empty string
NonEmptyText(t) == t.some /\ t.value # ""

\* the weight the series edge has: 0.95 for positions at most 1.0 apart, 0.75 for
\* positions further apart, 0.7 when a position is missing
ExpectedSeriesWeight(a, b) ==
    IF ~(a.some /\ b.some) THEN 70
    ELSE IF Abs(a.value - b.value) <= 2 THEN 95 ELSE 75

\* the edges that qualify
ExpectedEdges(a, b, sim) ==
    {[weight |-> sim.value, edge_type |-> "content"] : x \in {1} \cap
        (IF sim.some /\ sim.value > 30 THEN {1} ELSE {})}
    \cup {[weight |-> 85, edge_type |-> "author"] : x \in {1} \cap
        (IF NonEmptyText(a.author) /\ NonEmptyText(b.author) /\ a.author = b.author
         THEN {1} ELSE {})}
    \cup {[weight |-> ExpectedSeriesWeight(a.series_index, b.series_index),
           edge_type |-> "series"] : x \in {1} \cap
        (IF NonEmptyText(a.series) /\ NonEmptyText(b.series) /\ a.series = b.series
         THEN {1} ELSE {})}

\* C19: compute_all_edge_weights returns exactly the qualifying edges: the content
\* edge iff a similarity above 0.3 is supplied, the author edge of weight 0.85 iff both
\* books have a non-empty, equal author, the series edge iff both have a non-empty,
\* equal series, its weight 0.95, 0.75 or 0.7 by the series positions.
C19_QualifyingEdges ==
    "edges" \in DOMAIN fuse =>
        /\ SeqToSet(fuse.edges) =
              ExpectedEdges(fuse.book_a, fuse.book_b, fuse.embedding_similarity)
        /\ Len(fuse.edges) = Cardinality(SeqToSet(fuse.edges))

\* no author or series of the call is the empty string
NoBlankText ==
    \A t \in {fuse.book_a.author, fuse.book_b.author,
              fuse.book_a.series, fuse.book_b.series} : t # Some("")

\* what the code does keep of C19: the same when every author and series given is
\* absent or a non-empty string
C19_QualifyingEdgesNoBlank == NoBlankText => C19_QualifyingEdges

-----------------------------------------------------------------------------
(* Properties of the edges a BookGraph holds (SpecGraph) *)

\* an edge with a weight in [0,1] between two different books
EdgeOk(e) == e.weight >= 0 /\ e.weight <= 10 /\ e.source # e.target

\* C20: after any sequence of add_edge calls, made directly or by from_database,
\* every edge of the graph has a weight in [0,1] and a source different from its
\* target.
C20_EdgeInvariant == \A i \in DOMAIN graph : EdgeOk(graph[i])

\* what the code does keep of C20: a graph that from_database has just built holds
\* only such edges
C20_FromDatabaseEdges ==
    [][(\E min_weight \in {0, 5} : FromDatabase(min_weight, TRUE)) =>
          \A i \in DOMAIN graph' : EdgeOk(graph'[i])]_vars

-----------------------------------------------------------------------------
(* BookGraph: add_edge, node_count, neighbors *)

\* how many entries of the sequence s equal e
Occurrences(s, e) == Cardinality({i \in DOMAIN s : s[i] = e})

\* what neighbors is to return for the add_edge call c
EntryOf(c) == [neighbor |-> c.target, edge_weight |-> c.weight, edge_type |-> c.edge_type]

\* the add_edge calls made with source x, by their position in the call order
CallsFrom(x) == {i \in DOMAIN graph : graph[i].source = x}

\* C21: after any sequence of add_edge calls node_count() is the number of distinct
\* ids that were an endpoint of a call, and neighbors(x) holds exactly one (target,
\* weight, type) entry per call whose source is x: parallel edges are all kept, a
\* call with x as its target only adds nothing, and an id that never was an endpoint
\* (id 0 here) gets the empty list
C21_AddEdgeContract ==
    /\ node_count(bg) = Cardinality(NodesOf(graph))
    /\ \A x \in Nodes \cup {0} :
          LET ns == Neighbors(bg, x)
          IN /\ Len(ns) = Cardinality(CallsFrom(x))
             /\ \A e \in SeqToSet(ns) \cup {EntryOf(graph[i]) : i \in CallsFrom(x)} :
                   Occurrences(ns, e) =
                       Cardinality({i \in CallsFrom(x) : EntryOf(graph[i]) = e})
             /\ ns = neighbors(graph, x)

\* two add_edge calls with the same source, target, weight and type: both edges are
\* returned for the source, none for the target, and there are two nodes
C21_Witness ==
    /\ Len(graph) = 2
    /\ graph[1] = graph[2]
    /\ graph[1].source # graph[1].target
    /\ Len(Neighbors(bg, graph[1].source)) = 2
    /\ Neighbors(bg, graph[1].target) = <<>>
    /\ Neighbors(bg, 0) = <<>>
    /\ node_count(bg) = 2

-----------------------------------------------------------------------------
(* multi_hop_traversal and the direction of stored edges *)

\* the graph stores an edge t -> s that passes the threshold of hop 0, and no edge
\* s -> t
OnlyReverseEdge(s, t) ==
    /\ \E i \in DOMAIN graph :
          /\ graph[i].source = t
          /\ graph[i].target = s
          /\ graph[i].weight >= MinWeight(config, 0)
    /\ ~ \E i \in DOMAIN graph : graph[i].source = s /\ graph[i].target = t

\* C22: traversal treats stored edges as bidirectional: when the only edge between
\* the single seed s and a node t is stored as t -> s with a weight meeting the hop-0
\* threshold, the traversal from s returns t as a candidate (with at least one hop
\* allowed and a candidate limit no smaller than the number of nodes)
C22_ReverseEdgeFollowed ==
    (/\ pc = "done"
     /\ Len(seeds) = 1
     /\ config.max_hops >= 1
     /\ config.max_candidates >= Cardinality(NodesOf(graph)))
    => \A t \in Nodes \ {seeds[1]} :
          OnlyReverseEdge(seeds[1], t) => \E c \in Returned : c.book_id = t

-----------------------------------------------------------------------------
(* Database::insert_edges_batch, db/queries.rs 558-575 *)

MaxBatch == 2

\* the edges a caller may pass: two weights for the same key, a second key, an edge
\* from a book to itself and a weight above 1
BatchEdges ==
    {[source |-> 1, target |-> 2, weight |-> 5, edge_type |-> "content"],
     [source |-> 1, target |-> 2, weight |-> 10, edge_type |-> "content"],
     [source |-> 2, target |-> 1, weight |-> 5, edge_type |-> "author"],
     [source |-> 1, target |-> 1, weight |-> 5, edge_type |-> "content"],
     [source |-> 2, target |-> 3, weight |-> 11, edge_type |-> "content"]}

\* PRIMARY KEY (source_id, target_id, edge_type)
EdgeKey(r) == <<r.source, r.target, r.edge_type>>

\* INSERT OR REPLACE: the row of the same key, if any, gives way to the new row
InsertOrReplace(T, r) == {x \in T : EdgeKey(x) # EdgeKey(r)} \cup {r}

\* a variant of the table after a failed call in which the rows the transaction
\* had written stay
AfterErrorPartial(committed, working) == working

\* the table after a failed call: the transaction is dropped without commit, which
\* rolls it back
AfterError(committed, working) == committed

\* lines 559-566: a connection from the pool, BEGIN, prepare; each may fail
BatchBegin(edges, io_ok) ==
    /\ batch.pc \in {"idle", "ok", "err"}
    /\ batch' = [pc |-> IF io_ok THEN "open" ELSE "err", edges |-> edges, pos |-> 1,
                 before |-> book_edges, tx |-> book_edges]
    /\ UNCHANGED <<book_edges, bg, rankCalls, workerVars, codecVars>>
    /\ UNCHANGED <<travVars, storeVars, threadVars>>

\* lines 568-570: one stmt.execute; the row is refused when it breaks a CHECK of the
\* table and may be refused for other reasons (a foreign key without its book, a
\* full disk), and ? then leaves the function, dropping the transaction
BatchExecute(io_ok) ==
    /\ batch.pc = "open"
    /\ batch.pos <= Len(batch.edges)
    /\ LET r == batch.edges[batch.pos]
       IN IF RowOk(r) /\ io_ok
          THEN /\ batch' = [batch EXCEPT !.tx = InsertOrReplace(@, r), !.pos = @ + 1]
               /\ UNCHANGED book_edges
          ELSE /\ batch' = [batch EXCEPT !.pc = "err"]
               /\ book_edges' = AfterError(book_edges, batch.tx)
    /\ UNCHANGED <<bg, rankCalls, workerVars, codecVars>>
    /\ UNCHANGED <<travVars, storeVars, threadVars>>

\* lines 573-574: COMMIT publishes the rows of the transaction, or fails
BatchCommit(io_ok) ==
    /\ batch.pc = "open"
    /\ batch.pos > Len(batch.edges)
    /\ IF io_ok
       THEN /\ batch' = [batch EXCEPT !.pc = "ok"]
            /\ book_edges' = batch.tx
       ELSE /\ batch' = [batch EXCEPT !.pc = "err"]
            /\ book_edges' = AfterError(book_edges, batch.tx)
    /\ UNCHANGED <<bg, rankCalls, workerVars, codecVars>>
    /\ UNCHANGED <<travVars, storeVars, threadVars>>

\* calls of insert_edges_batch, one after the other, on a database with some edges
InitBatch ==
    /\ book_edges \in EdgeTables
    /\ pr_call = <<>>
    /\ scores = <<>>
    /\ personalization = <<>>
    /\ iter = 0
    /\ ppc = "idle"
    /\ mmr_call = <<>>
    /\ selected = <<>>
    /\ remaining = <<>>
    /\ picks = <<>>
    /\ mpc = "idle"
    /\ fuse = <<>>
    /\ rec = <<>>
    /\ TravIdle
    /\ StoreIdle
    /\ ThreadsIdle
    /\ AuxIdle

NextBatch ==
    \/ \E edges \in SeqsUpTo(BatchEdges, MaxBatch), io_ok \in BOOLEAN :
          BatchBegin(edges, io_ok)
    \/ \E io_ok \in BOOLEAN : BatchExecute(io_ok)
    \/ \E io_ok \in BOOLEAN : BatchCommit(io_ok)

SpecBatch == InitBatch /\ [][NextBatch]_vars

\* the edge at position i of the batch is in the table, unless a later edge of the
\* batch has its key and replaced it
Persisted(i) ==
    \/ batch.edges[i] \in book_edges
    \/ \E j \in (i + 1)..Len(batch.edges) : EdgeKey(batch.edges[j]) = EdgeKey(batch.edges[i])

\* the rows whose key is none of the batch's
Untouched(T) ==
    {r \in T : \A i \in DOMAIN batch.edges : EdgeKey(batch.edges[i]) # EdgeKey(r)}

\* C23: insert_edges_batch does not partially apply a batch: after Ok every edge of
\* the batch is persisted (and the other rows are as before); after Err, at the
\* start, at any row or at commit, the table is what it was before the call
C23_BatchAllOrNothing ==
    /\ batch.pc = "ok" =>
          /\ \A i \in DOMAIN batch.edges : Persisted(i)
          /\ Untouched(book_edges) = Untouched(batch.before)
          /\ \A r \in book_edges \ Untouched(book_edges) :
                \E i \in DOMAIN batch.edges : batch.edges[i] = r
    /\ batch.pc = "err" => book_edges = batch.before

\* the call failed after its first row had been written inside the transaction
C23_Witness ==
    /\ batch.pc = "err"
    /\ batch.pos = 2
    /\ batch.tx # batch.before
    /\ book_edges = batch.before

-----------------------------------------------------------------------------
(* Vector Store queries and storage failures *)

\* C24: a durable-storage failure met by a Vector Store query is surfaced to the
\* caller and distinguishable from absence: when the durable lookup of
\* get_embedding fails the caller does not receive None, and when the lazy full
\* load of find_similar (asked for at least one neighbour) fails the caller does not
\* receive the empty list
C24_StorageFailureSurfaced ==
    /\ (ret.op = "get_embedding" /\ ret.faulted) => ret.value # None
    /\ (ret.op = "find_similar" /\ ret.faulted /\ ret.k > 0) => ret.value # <<>>

-----------------------------------------------------------------------------
(* The background worker: BackgroundWorker::run, process_job and          *)
(* generate_embedding (worker/mod.rs 68-171), process_pending_embeddings  *)
(* (220-284), and the callers' pause_processing, resume_processing and    *)
(* queue_job (state.rs 110-132)                                           *)

MaxJobs == 2

\* the books of the catalog
WorkerBooks == {1}

\* BackgroundJob, state.rs 42-51; process_job ignores priority, and the library id
\* of ScanLibrary is only logged
Jobs ==
    {[kind |-> "GenerateEmbedding", book_id |-> b] : b \in WorkerBooks}
    \cup {[kind |-> "UpdateGraphEdges", book_id |-> 1],
          [kind |-> "ScanLibrary", book_id |-> 0],
          [kind |-> "Shutdown", book_id |-> 0]}

NoJob == [kind |-> "none", book_id |-> 0]

\* which of the fallible calls of one generate_embedding succeed: db.get_book, the
\* provider's embed, store_embedding, db.update_embedding_status
IoOutcomes == [book : BOOLEAN, embed : BOOLEAN, store : BOOLEAN, status : BOOLEAN]

\* a variant of the provider call that asks a second time after a failure
EmbedWithRetry(io) == [calls |-> IF io.embed THEN 1 ELSE 2, ok |-> io.embed]

\* ollama/mod.rs 95-120, OllamaClient::embed: one request to the provider
embed(io) == [calls |-> 1, ok |-> io.embed]

\* lines 120-171, generate_embedding: how often it called the provider, what the
\* provider answered, whether an embedding was stored, the status the book is left
\* with and what is returned ("provider" and "db" are the Err of the provider and
\* of a database or store call)
generate_embedding(book_id, io) ==
    LET keep == status[book_id]
    IN IF book_id \in embedded
       THEN [calls |-> 0, provider |-> "none", stored |-> FALSE, status |-> keep,
             result |-> "ok"]
       ELSE IF ~io.book
       THEN [calls |-> 0, provider |-> "none", stored |-> FALSE, status |-> keep,
             result |-> "db"]
       ELSE LET e == embed(io)
            IN IF ~e.ok
               THEN [calls |-> e.calls, provider |-> "failed", stored |-> FALSE,
                     status |-> IF io.status THEN "failed" ELSE keep,
                     result |-> IF io.status THEN "provider" ELSE "db"]
               ELSE IF ~io.store
               THEN [calls |-> e.calls, provider |-> "ok", stored |-> FALSE,
                     status |-> keep, result |-> "db"]
               ELSE [calls |-> e.calls, provider |-> "ok", stored |-> TRUE,
                     status |-> IF io.status THEN "complete" ELSE keep,
                     result |-> IF io.status THEN "ok" ELSE "db"]

\* history: the provider was called for book_id by `by`, and answered `answer`
LogCall(log, book_id, by, calls, answer) ==
    [log EXCEPT
        !.retried = IF calls > 0 /\ book_id \in log.marked
                    THEN @ \cup {[book_id |-> book_id, by |-> by]} ELSE @,
        !.marked = IF answer = "failed" THEN @ \cup {book_id} ELSE @]

\* state.rs 128-132, queue_job: try_send on the unbounded channel
QueueJob(job) ==
    /\ Len(wlog.enq) < MaxJobs
    /\ queue' = Append(queue, job)
    /\ wlog' = [wlog EXCEPT !.enq = Append(@, job)]
    /\ UNCHANGED <<paused, worker, status, embedded, run>>
    /\ UNCHANGED <<travVars, storeVars, threadVars, rankVars, bg, batch, codecVars>>

\* state.rs 116-119
PauseProcessing ==
    /\ ~paused
    /\ paused' = TRUE
    /\ UNCHANGED <<queue, worker, status, embedded, run, wlog>>
    /\ UNCHANGED <<travVars, storeVars, threadVars, rankVars, bg, batch, codecVars>>

\* state.rs 122-125
ResumeProcessing ==
    /\ paused
    /\ paused' = FALSE
    /\ UNCHANGED <<queue, worker, status, embedded, run, wlog>>
    /\ UNCHANGED <<travVars, storeVars, threadVars, rankVars, bg, batch, codecVars>>

\* db/queries.rs 470-479, reset_all_embedding_statuses, called at
\* commands/settings.rs 90: a caller sets every book back to pending
ResetStatuses ==
    /\ \E b \in WorkerBooks : status[b] # "pending"
    /\ status' = [b \in WorkerBooks |-> "pending"]
    /\ wlog' = [wlog EXCEPT !.marked = {}]
    /\ UNCHANGED <<queue, paused, worker, embedded, run>>
    /\ UNCHANGED <<travVars, storeVars, threadVars, rankVars, bg, batch, codecVars>>

\* lines 72-76: the top of the loop reads the pause flag; when set the worker
\* sleeps and starts over, else it goes on to recv
WorkerCheck ==
    /\ worker.pc = "check"
    /\ worker' = [worker EXCEPT !.pc = IF paused THEN "sleep" ELSE "recv"]
    /\ UNCHANGED <<queue, paused, status, embedded, run, wlog>>
    /\ UNCHANGED <<travVars, storeVars, threadVars, rankVars, bg, batch, codecVars>>

\* lines 74-75: the sleep of 500 ms ends
WorkerWake ==
    /\ worker.pc = "sleep"
    /\ worker' = [worker EXCEPT !.pc = "check"]
    /\ UNCHANGED <<queue, paused, status, embedded, run, wlog>>
    /\ UNCHANGED <<travVars, storeVars, threadVars, rankVars, bg, batch, codecVars>>

\* lines 79-84: recv().await returns the oldest job; Shutdown breaks the loop, any
\* other job goes to process_job
WorkerRecv ==
    /\ worker.pc = "recv"
    /\ queue # <<>>
    /\ queue' = Tail(queue)
    /\ worker' = [pc |-> IF Head(queue).kind = "Shutdown" THEN "stopped" ELSE "job",
                  job |-> Head(queue),
                  started_paused |-> paused]
    /\ wlog' = [wlog EXCEPT !.taken = Append(@, Head(queue))]
    /\ UNCHANGED <<paused, status, embedded, run>>
    /\ UNCHANGED <<travVars, storeVars, threadVars, rankVars, bg, batch, codecVars>>

\* lines 93-96: recv fails because the channel is closed and empty, which ends the loop
WorkerChannelClosed ==
    /\ worker.pc = "recv"
    /\ queue = <<>>
    /\ Len(wlog.enq) = MaxJobs
    /\ worker' = [worker EXCEPT !.pc = "stopped"]
    /\ UNCHANGED <<queue, paused, status, embedded, run, wlog>>
    /\ UNCHANGED <<travVars, storeVars, threadVars, rankVars, bg, batch, codecVars>>

\* lines 86-88 and 102-117: process_job; an Err is logged. The edges that
\* update_graph_edges writes are not followed here, and ScanLibrary does nothing.
WorkerProcess(io) ==
    /\ worker.pc = "job"
    /\ worker' = [worker EXCEPT !.pc = "delay"]
    /\ IF worker.job.kind = "GenerateEmbedding"
       THEN LET b == worker.job.book_id
                out == generate_embedding(b, io)
            IN /\ status' = [status EXCEPT ![b] = out.status]
               /\ embedded' = IF out.stored THEN embedded \cup {b} ELSE embedded
               /\ wlog' = [LogCall(wlog, b, "job", out.calls, out.provider) EXCEPT
                              !.last = [book_id |-> b, out |-> out,
                                        status_before |-> status[b],
                                        status_ok |-> io.status],
                              !.worker_calls = @ + out.calls]
       ELSE UNCHANGED <<status, embedded, wlog>>
    /\ UNCHANGED <<queue, paused, run>>
    /\ UNCHANGED <<travVars, storeVars, threadVars, rankVars, bg, batch, codecVars>>

\* line 91: the rate-limiting sleep ends and the loop starts over
WorkerDelay ==
    /\ worker.pc = "delay"
    /\ worker' = [worker EXCEPT !.pc = "check"]
    /\ UNCHANGED <<queue, paused, status, embedded, run, wlog>>
    /\ UNCHANGED <<travVars, storeVars, threadVars, rankVars, bg, batch, codecVars>>

\* the ids of S, largest first
RECURSIVE Descending(_)
Descending(S) ==
    IF S = {} THEN <<>>
    ELSE LET m == CHOOSE x \in S : \A y \in S : x >= y
         IN <<m>> \o Descending(S \ {m})

\* lines 228-232: process_pending_embeddings reads up to batch_size books whose status
\* is pending (db/queries.rs 481-490), newest first; a failing query returns the Err
\* and none returns Ok(0)
RunBegin(batch_size, db_ok) ==
    /\ run.pc = "idle"
    /\ LET pending_books == Descending({b \in WorkerBooks : status[b] = "pending"})
           n == IF Len(pending_books) < batch_size THEN Len(pending_books) ELSE batch_size
       IN /\ db_ok
          /\ pending_books # <<>>
          /\ run' = [pc |-> "loop", pending_books |-> SubSeq(pending_books, 1, n)]
    /\ UNCHANGED <<queue, paused, worker, status, embedded, wlog>>
    /\ UNCHANGED <<travVars, storeVars, threadVars, rankVars, bg, batch, codecVars>>

\* lines 236-280: one turn of the loop over pending_books
RunStep(io) ==
    /\ run.pc = "loop"
    /\ run.pending_books # <<>>
    /\ LET b == Head(run.pending_books)
           next == [run EXCEPT !.pending_books = Tail(@)]
           stop == [pc |-> "idle", pending_books |-> <<>>]
       IN IF paused
          THEN /\ run' = stop
               /\ UNCHANGED <<status, embedded, wlog>>
          ELSE IF b \in embedded
          THEN /\ run' = IF io.status THEN next ELSE stop
               /\ status' = IF io.status THEN [status EXCEPT ![b] = "complete"] ELSE status
               /\ UNCHANGED <<embedded, wlog>>
          ELSE IF ~io.book
          THEN /\ run' = next
               /\ UNCHANGED <<status, embedded, wlog>>
          ELSE LET e == embed(io)
               IN /\ wlog' = LogCall(wlog, b, "run", e.calls,
                                     IF e.ok THEN "ok" ELSE "failed")
                  /\ IF e.ok /\ ~io.store
                     THEN /\ run' = next
                          /\ UNCHANGED <<status, embedded>>
                     ELSE /\ run' = IF io.status THEN next ELSE stop
                          /\ embedded' = IF e.ok THEN embedded \cup {b} ELSE embedded
                          /\ status' = IF io.status
                                       THEN [status EXCEPT ![b] = IF e.ok THEN "complete"
                                                                  ELSE "failed"]
                                       ELSE status
    /\ UNCHANGED <<queue, paused, worker>>
    /\ UNCHANGED <<travVars, storeVars, threadVars, rankVars, bg, batch, codecVars>>

\* line 283: the loop is over and the count is returned
RunEnd ==
    /\ run.pc = "loop"
    /\ run.pending_books = <<>>
    /\ run' = [run EXCEPT !.pc = "idle"]
    /\ UNCHANGED <<queue, paused, worker, status, embedded, wlog>>
    /\ UNCHANGED <<travVars, storeVars, threadVars, rankVars, bg, batch, codecVars>>

\* a started worker with an empty channel and the flag clear; every book is
\* pending (db/migrations.rs 85) and has no embedding
InitWorker ==
    /\ queue = <<>>
    /\ paused = FALSE
    /\ worker = [pc |-> "check", job |-> NoJob, started_paused |-> FALSE]
    /\ status = [b \in WorkerBooks |-> "pending"]
    /\ embedded = {}
    /\ run = [pc |-> "idle", pending_books |-> <<>>]
    /\ wlog = [enq |-> <<>>, taken |-> <<>>, marked |-> {}, retried |-> {},
               worker_calls |-> 0,
               last |-> [book_id |-> 0,
                         out |-> [calls |-> 0, provider |-> "none", stored |-> FALSE,
                                  status |-> "pending", result |-> "ok"],
                         status_before |-> "pending", status_ok |-> TRUE]]
    /\ bg = BookGraphNew
    /\ batch = [pc |-> "idle", edges |-> <<>>, pos |-> 0, before |-> {}, tx |-> {}]
    /\ codec = [op |-> "none"]
    /\ TravIdle
    /\ StoreIdle
    /\ ThreadsIdle
    /\ RankIdle

NextWorker ==
    \/ \E job \in Jobs : QueueJob(job)
    \/ PauseProcessing
    \/ ResumeProcessing
    \/ ResetStatuses
    \/ WorkerCheck
    \/ WorkerWake
    \/ WorkerRecv
    \/ WorkerChannelClosed
    \/ \E io \in IoOutcomes : WorkerProcess(io)
    \/ WorkerDelay
    \/ \E batch_size \in 1..2, db_ok \in BOOLEAN : RunBegin(batch_size, db_ok)
    \/ \E io \in IoOutcomes : RunStep(io)
    \/ RunEnd

SpecWorker == InitWorker /\ [][NextWorker]_vars

-----------------------------------------------------------------------------
(* The embedding provider is not called again by the worker on its own *)

\* how many GenerateEmbedding jobs the worker has taken from the channel
GenerateJobsTaken ==
    Cardinality({i \in DOMAIN wlog.taken : wlog.taken[i].kind = "GenerateEmbedding"})

-----------------------------------------------------------------------------
(* The worker, the pause flag and Shutdown *)

\* the jobs are taken one at a time in the order they were queued, and a Shutdown
\* job is the last job the worker takes
C30_OrderAndShutdown ==
    /\ wlog.taken \o queue = wlog.enq
    /\ \A i \in 1..(Len(wlog.taken) - 1) : wlog.taken[i].kind # "Shutdown"
    /\ (wlog.taken # <<>> /\ wlog.taken[Len(wlog.taken)].kind = "Shutdown")
          => worker.pc = "stopped"

\* C30: under any interleaving with pause_processing, resume_processing and
\* queue_job the worker never starts processing a job while the pause flag is set,
\* processes the jobs one at a time in the order they were queued, and processes no
\* further job after it has dequeued a Shutdown job
C30_PauseAndShutdownRespected ==
    /\ worker.pc = "job" => ~worker.started_paused
    /\ C30_OrderAndShutdown

-----------------------------------------------------------------------------
(* serialize_embedding and deserialize_embedding, vector/mod.rs 284-307 *)

MaxVec == 2
MaxBytes == 5

\* floats by their bits: +0.0, -0.0, 1.0, -4.5, the smallest subnormal, the largest
\* finite float, +infinity, a quiet NaN and a signalling NaN with a payload
F32Samples ==
    {[sign |-> 0, exp |-> 0, man |-> 0],
     [sign |-> 1, exp |-> 0, man |-> 0],
     [sign |-> 0, exp |-> 127, man |-> 0],
     [sign |-> 1, exp |-> 129, man |-> 1048576],
     [sign |-> 0, exp |-> 0, man |-> 1],
     [sign |-> 0, exp |-> 254, man |-> 8388607],
     [sign |-> 0, exp |-> 255, man |-> 0],
     [sign |-> 0, exp |-> 255, man |-> 4194304],
     [sign |-> 1, exp |-> 255, man |-> 258]}

ByteSamples == {0, 1, 128, 255}

\* a Vec<f32>, and a byte string, every component or byte written out
Whole(s) == [len |-> Len(s), lead |-> s]

Vectors == {Whole(s) : s \in SeqsUpTo(F32Samples, MaxVec)}

ByteStrings == {Whole(s) : s \in SeqsUpTo(ByteSamples, MaxBytes)}

\* lines 284-290 applied to a vector
Serialize(v) ==
    /\ codec.op = "none"
    /\ codec' = [op |-> "serialize", input |-> v, output |-> serialize_embedding(v)]
    /\ UNCHANGED <<travVars, storeVars, threadVars, rankVars, bg, batch, workerVars>>

\* lines 293-307 applied to the bytes serialize_embedding has just returned
RoundTrip ==
    /\ codec.op = "serialize"
    /\ codec' = [op |-> "round_trip", input |-> codec.output, origin |-> codec.input,
                 output |-> deserialize_embedding(codec.output)]
    /\ UNCHANGED <<travVars, storeVars, threadVars, rankVars, bg, batch, workerVars>>

\* lines 293-307 applied to any byte string
Deserialize(bytes) ==
    /\ codec.op = "none"
    /\ codec' = [op |-> "deserialize", input |-> bytes,
                 output |-> deserialize_embedding(bytes)]
    /\ UNCHANGED <<travVars, storeVars, threadVars, rankVars, bg, batch, workerVars>>

\* the caller has taken the result; the functions keep no state between calls
CodecReturn ==
    /\ codec.op \in {"round_trip", "deserialize"}
    /\ codec' = [op |-> "none"]
    /\ UNCHANGED <<travVars, storeVars, threadVars, rankVars, bg, batch, workerVars>>

InitCodec ==
    /\ codec = [op |-> "none"]
    /\ bg = BookGraphNew
    /\ batch = [pc |-> "idle", edges |-> <<>>, pos |-> 0, before |-> {}, tx |-> {}]
    /\ queue = <<>>
    /\ paused = FALSE
    /\ worker = <<>>
    /\ status = <<>>
    /\ embedded = {}
    /\ run = <<>>
    /\ wlog = <<>>
    /\ TravIdle
    /\ StoreIdle
    /\ ThreadsIdle
    /\ RankIdle

NextCodec ==
    \/ \E v \in Vectors : Serialize(v)
    \/ RoundTrip
    \/ \E bytes \in ByteStrings : Deserialize(bytes)
    \/ CodecReturn

SpecCodec == InitCodec /\ [][NextCodec]_vars

-----------------------------------------------------------------------------
(* Threads calling store_embedding, delete_embedding, clear_all,          *)
(* get_embedding and load_cache on one VectorStore at the same time. Each *)
(* database statement and each DashMap call is one step; the functions    *)
(* hold no lock from one to the next.                                     *)

NoCall == [op |-> "none", step |-> "idle", book_id |-> 0, embedding |-> Emb(0, 0, 0)]

\* the calls a thread may make, at their first step
RaceCalls ==
    {[op |-> "store_embedding", step |-> "execute", book_id |-> id, embedding |-> v] :
        id \in Ids, v \in Embeddings}
    \cup {[op |-> o, step |-> "execute", book_id |-> id, embedding |-> Emb(0, 0, 0)] :
            o \in {"delete_embedding"}, id \in Ids}
    \cup {[op |-> "get_embedding", step |-> "lookup", book_id |-> id,
           embedding |-> Emb(0, 0, 0)] : id \in Ids}
    \cup {[op |-> "clear_all", step |-> "execute", book_id |-> 0, embedding |-> Emb(0, 0, 0)],
          [op |-> "load_cache", step |-> "query", book_id |-> 0, embedding |-> Emb(0, 0, 0)]}

At(t, op, step) == tpc[t].op = op /\ tpc[t].step = step

Goto(t, step) == tpc' = [tpc EXCEPT ![t].step = step]

\* a thread calls one of the functions
Invoke(t, call) ==
    /\ tpc[t].step = "idle"
    /\ tpc' = [tpc EXCEPT ![t] = call]
    /\ UNCHANGED <<cursor, answers, full_loads, storeVars, travVars, rankVars, auxVars>>

\* store_embedding, lines 106-113: INSERT OR REPLACE (the length was tested at 98)
StoreExecute(t) ==
    /\ At(t, "store_embedding", "execute")
    /\ durable' = Put(durable, tpc[t].book_id, serialize_embedding(tpc[t].embedding))
    /\ Goto(t, "cache")
    /\ UNCHANGED <<cache, cache_loaded, ret, cursor, answers, full_loads>>
    /\ UNCHANGED <<travVars, rankVars, auxVars>>

\* store_embedding, line 116: cache.insert
StoreInsert(t) ==
    /\ At(t, "store_embedding", "cache")
    /\ cache' = Put(cache, tpc[t].book_id, tpc[t].embedding)
    /\ Goto(t, "done")
    /\ UNCHANGED <<durable, cache_loaded, ret, cursor, answers, full_loads>>
    /\ UNCHANGED <<travVars, rankVars, auxVars>>

\* delete_embedding, lines 146-147: DELETE ... WHERE book_id = ?
DeleteExecute(t) ==
    /\ At(t, "delete_embedding", "execute")
    /\ durable' = Remove(durable, tpc[t].book_id)
    /\ Goto(t, "cache")
    /\ UNCHANGED <<cache, cache_loaded, ret, cursor, answers, full_loads>>
    /\ UNCHANGED <<travVars, rankVars, auxVars>>

\* delete_embedding, line 148: cache.remove
DeleteRemove(t) ==
    /\ At(t, "delete_embedding", "cache")
    /\ cache' = Remove(cache, tpc[t].book_id)
    /\ Goto(t, "done")
    /\ UNCHANGED <<durable, cache_loaded, ret, cursor, answers, full_loads>>
    /\ UNCHANGED <<travVars, rankVars, auxVars>>

\* clear_all, lines 214-216: count the rows and DELETE FROM embeddings
ClearExecute(t) ==
    /\ At(t, "clear_all", "execute")
    /\ durable' = <<>>
    /\ Goto(t, "cache")
    /\ UNCHANGED <<cache, cache_loaded, ret, cursor, answers, full_loads>>
    /\ UNCHANGED <<travVars, rankVars, auxVars>>

\* clear_all, line 217: cache.clear
ClearCache(t) ==
    /\ At(t, "clear_all", "cache")
    /\ cache' = <<>>
    /\ Goto(t, "done")
    /\ UNCHANGED <<durable, cache_loaded, ret, cursor, answers, full_loads>>
    /\ UNCHANGED <<travVars, rankVars, auxVars>>

\* get_embedding, lines 124-126: a cache hit returns
GetLookup(t) ==
    /\ At(t, "get_embedding", "lookup")
    /\ Goto(t, IF tpc[t].book_id \in DOMAIN cache THEN "done" ELSE "query")
    /\ UNCHANGED <<cursor, answers, full_loads, storeVars, travVars, rankVars, auxVars>>

\* get_embedding, lines 129-138: the row is read and deserialized; no row, or a blob
\* that does not deserialize, returns None
GetQuery(t) ==
    /\ At(t, "get_embedding", "query")
    /\ LET id == tpc[t].book_id
           found == id \in DOMAIN durable /\ deserialize_embedding(durable[id]).ok
       IN /\ Goto(t, IF found THEN "cache" ELSE "done")
          /\ cursor' = [cursor EXCEPT ![t] = IF found THEN <<durable[id]>> ELSE <<>>]
    /\ UNCHANGED <<answers, full_loads, storeVars, travVars, rankVars, auxVars>>

\* get_embedding, line 139: cache.insert of what was read
GetInsert(t) ==
    /\ At(t, "get_embedding", "cache")
    /\ cache' = Put(cache, tpc[t].book_id, deserialize_embedding(cursor[t][1]).value)
    /\ cursor' = [cursor EXCEPT ![t] = <<>>]
    /\ Goto(t, "done")
    /\ UNCHANGED <<durable, cache_loaded, ret, answers, full_loads>>
    /\ UNCHANGED <<travVars, rankVars, auxVars>>

\* load_cache, lines 66-73: the SELECT starts; its rows are those of the database at
\* that moment (the read transaction of a WAL database, db/mod.rs 31)
LoadQuery(t) ==
    /\ At(t, "load_cache", "query")
    /\ cursor' = [cursor EXCEPT ![t] =
                    [i \in 1..Cardinality(DOMAIN durable) |->
                        [book_id |-> Ascending(DOMAIN durable)[i],
                         blob |-> durable[Ascending(DOMAIN durable)[i]]]]]
    /\ Goto(t, "rows")
    /\ UNCHANGED <<answers, full_loads, storeVars, travVars, rankVars, auxVars>>

\* load_cache, lines 76-82: the next row is inserted into the cache if it deserializes
LoadInsert(t) ==
    /\ At(t, "load_cache", "rows")
    /\ cursor[t] # <<>>
    /\ LET row == Head(cursor[t])
       IN cache' = IF deserialize_embedding(row.blob).ok
                   THEN Put(cache, row.book_id, deserialize_embedding(row.blob).value)
                   ELSE cache
    /\ cursor' = [cursor EXCEPT ![t] = Tail(@)]
    /\ UNCHANGED <<tpc, durable, cache_loaded, ret, answers, full_loads>>
    /\ UNCHANGED <<travVars, rankVars, auxVars>>

\* load_cache, lines 84-87
LoadFinish(t) ==
    /\ At(t, "load_cache", "rows")
    /\ cursor[t] = <<>>
    /\ cache_loaded' = TRUE
    /\ full_loads' = 1
    /\ Goto(t, "done")
    /\ UNCHANGED <<cache, durable, ret, cursor, answers>>
    /\ UNCHANGED <<travVars, rankVars, auxVars>>

\* a database call fails and ? (or .ok()?) leaves the function
CallFails(t) ==
    /\ tpc[t].step \in {"execute", "query", "rows"}
    /\ Goto(t, "done")
    /\ cursor' = [cursor EXCEPT ![t] = <<>>]
    /\ UNCHANGED <<answers, full_loads, storeVars, travVars, rankVars, auxVars>>

\* a VectorStore with an empty cache over a database with rows, and threads that
\* have not called yet
InitRace ==
    /\ cache = <<>>
    /\ durable \in StoredRows
    /\ cache_loaded = FALSE
    /\ ret = [op |-> "new"]
    /\ tpc = [t \in Callers |-> NoCall]
    /\ cursor = [t \in Callers |-> <<>>]
    /\ answers = [t \in Callers |-> <<>>]
    /\ full_loads = 0
    /\ TravIdle
    /\ RankIdle
    /\ AuxIdle

NextRace ==
    \/ \E t \in Callers, call \in RaceCalls : Invoke(t, call)
    \/ \E t \in Callers : StoreExecute(t)
    \/ \E t \in Callers : StoreInsert(t)
    \/ \E t \in Callers : DeleteExecute(t)
    \/ \E t \in Callers : DeleteRemove(t)
    \/ \E t \in Callers : ClearExecute(t)
    \/ \E t \in Callers : ClearCache(t)
    \/ \E t \in Callers : GetLookup(t)
    \/ \E t \in Callers : GetQuery(t)
    \/ \E t \in Callers : GetInsert(t)
    \/ \E t \in Callers : LoadQuery(t)
    \/ \E t \in Callers : LoadInsert(t)
    \/ \E t \in Callers : LoadFinish(t)
    \/ \E t \in Callers : CallFails(t)

SpecRace == InitRace /\ [][NextRace]_vars

\* every call that was made has returned
AllCompleted == \A t \in Callers : tpc[t].step \in {"idle", "done"}

\* every cache entry is the durable record of its id
CacheMatchesDurable ==
    \A id \in DOMAIN cache :
        /\ id \in DOMAIN durable
        /\ deserialize_embedding(durable[id]) = Ok(cache[id])

\* C27: under any interleaving of store_embedding, delete_embedding, clear_all,
\* get_embedding and load_cache on one VectorStore, once all of them have completed
\* every cache entry equals the durable record of the same id: no entry for an id
\* that was deleted or cleared, and no vector older than the durable one
C27_CacheConsistentAtRest == AllCompleted => CacheMatchesDurable


-----------------------------------------------------------------------------
(* multi_hop_traversal on graphs where a candidate is reached a second time *)

\* two parallel edges 1 -> 2, the weaker one added last so that neighbors(1) yields it
\* first, and one edge 2 -> 3
ParallelEdgeGraph ==
    <<[source |-> 1, target |-> 2, weight |-> 9, edge_type |-> "content"],
      [source |-> 1, target |-> 2, weight |-> 4, edge_type |-> "content"],
      [source |-> 2, target |-> 3, weight |-> 9, edge_type |-> "content"]>>

\* node 3 is a neighbor of both seeds 1 and 2, the stronger edge from the later seed
TwoSeedGraph ==
    <<[source |-> 1, target |-> 3, weight |-> 4, edge_type |-> "content"],
      [source |-> 2, target |-> 3, weight |-> 9, edge_type |-> "author"],
      [source |-> 3, target |-> 4, weight |-> 9, edge_type |-> "content"]>>

RevisitGraphs == {ParallelEdgeGraph, TwoSeedGraph, ChainGraph}

InitRevisit ==
    /\ graph \in RevisitGraphs
    /\ seeds \in SeedLists
    /\ config \in TraversalConfig
    /\ candidates = <<>>
    /\ visited = {}
    /\ frontier = <<>>
    /\ cur = NoEntry
    /\ pending = <<>>
    /\ result = <<>>
    /\ pc = "start"
    /\ expanded = <<>>
    /\ discovered = <<>>
    /\ enqueued = 0
    /\ StoreIdle
    /\ ThreadsIdle
    /\ RankIdle
    /\ AuxIdle

SpecRevisit == InitRevisit /\ [][TravNext]_vars

\* the record is the one lines 195-203 compute from record p of the predecessor and
\* an edge from p.book_id to c.book_id
BuiltOn(c, p) ==
    /\ p.book_id = c.path[Len(c.path) - 1]
    /\ p.path = SubSeq(c.path, 1, Len(c.path) - 1)
    /\ \E i \in DOMAIN graph :
          /\ graph[i].source = p.book_id
          /\ graph[i].target = c.book_id
          /\ graph[i].edge_type = c.edge_types[Len(c.edge_types)]
          /\ ScoreEQ(c.score,
                     NewScore(p.score, graph[i].weight,
                              powi(config.decay_factor, Len(p.path) - 1)))

\* C28: in the returned vector every candidate's path starts at a seed and ends at
\* its own book_id, edge_types has one entry per path edge, and a candidate whose
\* path has two or more edges extends the returned record of its predecessor: the
\* same path without the last node, and the predecessor's returned score times the
\* last edge's weight times decay_factor^(hop of the predecessor).
C28_BuiltOnReturnedPredecessor ==
    pc = "done" =>
        \A c \in Returned :
            /\ Len(c.path) >= 2
            /\ c.path[1] \in SeqToSet(seeds)
            /\ c.path[Len(c.path)] = c.book_id
            /\ Len(c.edge_types) = Len(c.path) - 1
            /\ Len(c.path) >= 3 => \E p \in Returned : BuiltOn(c, p)

\* the weaker half of C28, which the code meets: each record is well-formed
C28_RecordWellFormed ==
    pc = "done" =>
        \A c \in Returned :
            /\ Len(c.path) >= 2
            /\ c.path[1] \in SeqToSet(seeds)
            /\ c.path[Len(c.path)] = c.book_id
            /\ Len(c.edge_types) = Len(c.path) - 1


-----------------------------------------------------------------------------
(* Termination of multi_hop_traversal *)

\* multi_hop_traversal is one sequential call: a step that can be taken is taken
SpecTermination == Init /\ [][Next]_vars /\ WF_vars(Next)

\* a self-loop, a pair of parallel edges, or a cycle of two nodes
Cyclic(g) ==
    \E i, j \in DOMAIN g :
        \/ g[i].source = g[i].target
        \/ i # j /\ g[i].source = g[j].source /\ g[i].target = g[j].target
        \/ g[i].source = g[j].target /\ g[i].target = g[j].source

\* C29: multi_hop_traversal terminates on every graph, seed list and configuration:
\* the while loop is left with the frontier empty and the result is returned, and
\* the number of entries ever pushed onto the frontier never exceeds the number of
\* seeds plus the number of graph nodes.
C29_TerminatesWithBoundedFrontier ==
    /\ <>(pc = "done" /\ frontier = <<>>)
    /\ [](enqueued <= Len(seeds) + Cardinality(NodesOf(graph)))

\* a traversal over a graph with a self-loop, parallel edges or a cycle has returned
\* after following edges two hops deep and pushing a discovered node
C29_Witness ==
    /\ pc = "done"
    /\ frontier = <<>>
    /\ Cyclic(graph)
    /\ enqueued > Len(seeds)
    /\ \E i \in DOMAIN expanded : expanded[i].hop >= 1

=============================================================================
